---- MODULE Spec2Model ----
(***************************************************************************)
(* Command execution and log streaming of the sandbox SDK.                 *)
(*                                                                         *)
(* The sources hold three revisions of the Command handle and two of the   *)
(* API client.  They are modelled side by side, selected by `rev`:         *)
(*   r1  Command/CommandFinished of src/src/entity/sandbox.ts:1059-1205    *)
(*       with the client of src/unnamed/part_006 (positional arguments,    *)
(*       records {stream, data});                                          *)
(*   r2  Command/CommandFinished of src/src/entity/command.ts:129-287      *)
(*       with the client of src/src/core/buddy-api-client.ts;              *)
(*   r3  Command of src/src/entity/command.ts:5-124 with the client of     *)
(*       src/src/core/buddy-api-client.ts.                                 *)
(*                                                                         *)
(* Text is a sequence of characters, a body a sequence of bytes.  The wire *)
(* alphabet is reduced: "{" and "}" delimit an object, "O", "E" and "X"    *)
(* stand for the members "type":"STDOUT", "type":"STDERR" and              *)
(* "type":"OTHER", "D" opens the member "data" whose string runs to the    *)
(* closing "}", and the two bytes C3 A9 encode the character U+E9.         *)
(***************************************************************************)
EXTENDS Integers, Sequences, FiniteSets, TLC

VARIABLES
    rev,          \* the revision of the handle and client in use
    payload,      \* the bytes of the logs response body
    contentType,  \* the Content-Type header of the logs response
    responseStatus, \* the status of the logs response, 0 when fetch rejects
    fetches,      \* number of fetch() calls streamCommandLogs has made
    earlier,      \* the sequences of the logs() calls that are over
    pos,          \* number of body bytes the reader has delivered
    pending,      \* TextDecoder: bytes of an incomplete character
    buffer,       \* streamCommandLogs: let buffer
    lines,        \* streamCommandLogs: the lines the for loop has left
    gen,          \* position of the generator
    yielded,      \* the records the consumer has received
    error,        \* the error the generator threw, or NoError
    locked,       \* whether the body's reader is acquired and not released
    responseBody, \* response.body: none, open, closed, errored
    cuts,         \* history: the kinds of chunk boundaries seen
    stream,       \* output(stream): the selector
    data,         \* output: let data
    handles,      \* the Command objects created so far, in creation order
    call,         \* the wait() call in progress
    settled,      \* the last wait() call that has settled
    waits,        \* number of wait() calls made
    request,      \* the client operation in progress and its skipRetry
    attempts,     \* HttpClient: number of fetch calls made for the request
    answers,      \* history: the status of each attempt, in order
    http,         \* HttpClient.#request: idle, fetch, backoff, resolved, rejected
    outcome,      \* how the client operation settled
    requests,     \* number of client operations started
    validated,    \* safeParse of the last 2xx response: none, success, failure
    run,          \* Sandbox.runCommand: the call in progress
    until,        \* Sandbox.waitUntil...: the call in progress and the clock
    pair,         \* two Command handles in use at once, and their server
    life          \* Sandbox.start, stop, restart, refresh, destroy: the call

logVars == <<payload, contentType, responseStatus, fetches, earlier, pos, pending, buffer, lines, gen, yielded,
             error, locked, responseBody, cuts, stream, data>>

waitVars == <<handles, call, settled, waits>>

httpVars ==
    <<request, attempts, answers, http, outcome, requests, validated>>

entityVars == <<run, until, pair, life>>

vars == <<rev, logVars, waitVars, httpVars, entityVars>>

Revisions == {"r1", "r2", "r3"}

NL == "\n"
NoError == [kind |-> "none", line |-> <<>>]

\* A command resource as the API returns it: the members it has, their values
Response(has, status, code) ==
    [has |-> has, status |-> status, exit_code |-> code]

NoResponse == Response({}, "", 0)

\* No wait() call is in progress
\* No client operation has been started
NoRequest == [op |-> "none", skipRetry |-> FALSE, on |-> 0]

\* The promise of a client operation
NoOutcome == [state |-> "none", error |-> "none", status |-> 0]
Pending == [state |-> "pending", error |-> "none", status |-> 0]
Resolved(status) == [state |-> "resolved", error |-> "none", status |-> status]
Rejected(kind, status) ==
    [state |-> "rejected", error |-> kind, status |-> status]

InitHttp ==
    /\ request = NoRequest
    /\ attempts = 0
    /\ answers = <<>>
    /\ http = "idle"
    /\ outcome = NoOutcome
    /\ requests = 0
    /\ validated = "none"

\* No runCommand call has been made
NoRun ==
    [pc |-> "idle", detached |-> FALSE, attached |-> FALSE, logs |-> "none",
     handle |-> 0, result |-> 0]

\* No waitUntil... call has been made; the clock stands at 0
NoUntil ==
    [pc |-> "idle", op |-> "none", now |-> 0, startTime |-> 0, checked |-> 0,
     error |-> "none"]

\* The two handles, named by the ids of their commands
PairHandles == {1, 2}

\* What the server says of command c while its status is st
Details(c, st) ==
    [id |-> c, status |-> st,
     exit_code |-> IF st = "FAILED" THEN 40 + c ELSE 0]

NoDetails == Details(0, "")

\* A handle on which neither wait() nor logs() has been called
NoOp ==
    [pc |-> "idle", polls |-> 0, asked |-> 0, answer |-> NoDetails,
     result |-> NoDetails, lpc |-> "idle", lasked |-> 0, records |-> <<>>]

NoPair ==
    [op |-> [h \in PairHandles |-> NoOp],
     server |-> [c \in PairHandles |-> "INPROGRESS"],
     last |-> 0]

\* No error: nothing thrown
NoThrown == [kind |-> "none", code |-> "none", statusCode |-> -1, layers |-> 0]

\* What Sandbox.data shows: status, setup_status and whether id is set
SandboxData(status, setup, hasId) ==
    [status |-> status, setup |-> setup, id |-> hasId]

\* No lifecycle operation has been called on the sandbox
NoLife ==
    [op |-> "none", pc |-> "idle", todo |-> <<>>,
     data |-> SandboxData("RUNNING", "SUCCESS", TRUE),
     before |-> SandboxData("RUNNING", "SUCCESS", TRUE),
     sent |-> 0, checks |-> 0, calls |-> 0,
     raw |-> NoThrown, thrown |-> NoThrown]

InitEntity ==
    /\ run = NoRun
    /\ until = NoUntil
    /\ pair = NoPair
    /\ life = NoLife

NoCall ==
    [pc |-> "idle", on |-> 0, polls |-> 0, nonTerminal |-> 0, odd |-> FALSE,
     error |-> "none"]

\* A wait() call that has settled: the handle it was called on, the handle
\* it resolved with (0 when it rejected), the polls it sent, the
\* non-terminal responses it received and whether one of them had an
\* unknown or no status, the last response it received, the error of the
\* poll that failed
Settled(on, result, c, last, failed) ==
    [on |-> on, result |-> result, polls |-> c.polls,
     nonTerminal |-> c.nonTerminal, odd |-> c.odd, last |-> last,
     failed |-> failed, error |-> c.error]

NoneSettled == Settled(0, 0, NoCall, NoResponse, FALSE)

-----------------------------------------------------------------------------
(* Text helpers *)

IsWhitespace(c) == c \in {" ", NL}

\* String.prototype.trim
RECURSIVE TrimStart(_)
TrimStart(t) ==
    IF t # <<>> /\ IsWhitespace(Head(t)) THEN TrimStart(Tail(t)) ELSE t

RECURSIVE TrimEnd(_)
TrimEnd(t) ==
    IF t # <<>> /\ IsWhitespace(t[Len(t)])
    THEN TrimEnd(SubSeq(t, 1, Len(t) - 1))
    ELSE t

Trim(t) == TrimEnd(TrimStart(t))

\* String.prototype.split("\n"): always at least one segment
RECURSIVE Split(_)
Split(t) ==
    IF t = <<>> THEN << <<>> >>
    ELSE LET rest == Split(Tail(t))
         IN IF Head(t) = NL THEN << <<>> >> \o rest
            ELSE << <<Head(t)>> \o Head(rest) >> \o Tail(rest)

-----------------------------------------------------------------------------
(* TextDecoder("utf-8").decode(chunk, {stream: true}) *)

\* One byte into the decoder: st = [out |-> text so far, pend |-> lead bytes]
DecodeByte(st, b) ==
    IF st.pend # <<>>
    THEN IF b = "A9"
         THEN [out |-> Append(st.out, "U+E9"), pend |-> <<>>]
         ELSE \* the sequence is broken: U+FFFD, and the byte is looked at again
              IF b = "C3"
              THEN [out |-> Append(st.out, "U+FFFD"), pend |-> <<"C3">>]
              ELSE [out |-> st.out \o <<"U+FFFD", b>>, pend |-> <<>>]
    ELSE IF b = "C3" THEN [out |-> st.out, pend |-> <<"C3">>]
         ELSE IF b = "A9" THEN [out |-> Append(st.out, "U+FFFD"), pend |-> <<>>]
         ELSE [out |-> Append(st.out, b), pend |-> <<>>]

RECURSIVE DecodeFrom(_, _)
DecodeFrom(st, chunk) ==
    IF chunk = <<>> THEN st
    ELSE DecodeFrom(DecodeByte(st, Head(chunk)), Tail(chunk))

\* decode(chunk) without {stream: true}: every chunk decoded on its own
TextDecoderStateless(pend, chunk) ==
    LET st == DecodeFrom([out |-> <<>>, pend |-> <<>>], chunk)
    IN [out |-> st.out \o (IF st.pend # <<>> THEN <<"U+FFFD">> ELSE <<>>),
        pend |-> <<>>]

\* decode(chunk, {stream: true}): an incomplete character stays in the decoder
TextDecoder_decode(pend, chunk) ==
    DecodeFrom([out |-> <<>>, pend |-> pend], chunk)

\* response.text(): the whole body decoded at once, the decoder flushed
Response_text(body) ==
    LET st == DecodeFrom([out |-> <<>>, pend |-> <<>>], body)
    IN st.out \o (IF st.pend # <<>> THEN <<"U+FFFD">> ELSE <<>>)

-----------------------------------------------------------------------------
(* JSON.parse on the reduced alphabet, and the schema of a log record *)

TypeChars == {"O", "E", "X"}
PayloadChars == {"a", "n", " ", "U+E9", "U+FFFD"}

TypeName(c) ==
    IF c = "O" THEN "STDOUT" ELSE IF c = "E" THEN "STDERR" ELSE "OTHER"

IsPayload(t) == \A i \in 1..Len(t) : t[i] \in PayloadChars

\* A parsed object: the members it has, and their values
Obj(has, type, text) == [has |-> has, type |-> type, data |-> text]

SyntaxError == [ok |-> FALSE, value |-> Obj({}, "", <<>>)]

\* JSON.parse(line): insignificant whitespace around the value is allowed
JSON_parse(line) ==
    LET t == Trim(line)
        n == Len(t)
        inner == SubSeq(t, 2, n - 1)
        m == Len(inner)
    IN IF n < 2 \/ t[1] # "{" \/ t[n] # "}" THEN SyntaxError
       ELSE IF m = 0 THEN [ok |-> TRUE, value |-> Obj({}, "", <<>>)]
       ELSE IF inner[1] \in TypeChars
       THEN IF m = 1
            THEN [ok |-> TRUE,
                  value |-> Obj({"type"}, TypeName(inner[1]), <<>>)]
            ELSE IF inner[2] = "D" /\ IsPayload(SubSeq(inner, 3, m))
            THEN [ok |-> TRUE,
                  value |-> Obj({"type", "data"}, TypeName(inner[1]),
                                SubSeq(inner, 3, m))]
            ELSE SyntaxError
       ELSE IF inner[1] = "D" /\ IsPayload(SubSeq(inner, 2, m))
       THEN [ok |-> TRUE, value |-> Obj({"data"}, "", SubSeq(inner, 2, m))]
       ELSE SyntaxError

\* z.object({type: z.enum(["STDOUT", "STDERR"]), data: z.string()})
SandboxCommandLogSchema(obj) ==
    /\ "type" \in obj.has
    /\ obj.type \in {"STDOUT", "STDERR"}
    /\ "data" \in obj.has

\* The generated schema the current client validates a log entry with
zSandboxCommandLog(obj) ==
    /\ "type" \in obj.has
    /\ obj.type \in {"STDOUT", "STDERR"}
    /\ "data" \in obj.has

Err(kind, line) == [kind |-> kind, line |-> line]
Thrown(kind, line) == [ok |-> FALSE, log |-> <<>>, error |-> Err(kind, line)]
Parsed(log) == [ok |-> TRUE, log |-> <<log>>, error |-> NoError]

\* part_006: parseLogEntry(line)
parseLogEntry(line) ==
    LET parsed == JSON_parse(line)
    IN IF ~parsed.ok THEN Thrown("Error", line)
       ELSE IF ~SandboxCommandLogSchema(parsed.value)
       THEN Thrown("ValidationError", <<>>)
       ELSE Parsed([stream |-> IF parsed.value.type = "STDOUT"
                               THEN "stdout" ELSE "stderr",
                    data |-> IF parsed.value.data # <<>>
                             THEN Append(parsed.value.data, NL) ELSE <<>>])

\* The parsed value is returned without a look at the schema
parseAndValidateUnchecked(line) ==
    LET parsed == JSON_parse(line)
    IN IF ~parsed.ok THEN Thrown("Error", line)
       ELSE Parsed([type |-> parsed.value.type, data |-> parsed.value.data])

\* buddy-api-client.ts: #parseAndValidateLogEntry(line)
parseAndValidateLogEntry(line) ==
    LET parsed == JSON_parse(line)
    IN IF ~parsed.ok THEN Thrown("Error", line)
       ELSE IF ~zSandboxCommandLog(parsed.value)
       THEN Thrown("ZodError", <<>>)
       ELSE Parsed([type |-> parsed.value.type, data |-> parsed.value.data])

ParseEntry(r, line) ==
    IF r = "r1" THEN parseLogEntry(line) ELSE parseAndValidateLogEntry(line)

\* The stream of a record, in the vocabulary of its revision
LogKind(r, log) == IF r = "r1" THEN log.stream ELSE log.type

-----------------------------------------------------------------------------
(* The bodies the server may send *)

MaxLines == 3

LineOutA == <<"{", "O", "D", "a", "}">>
LineErrE9 == <<"{", "E", "D", "C3", "A9", "}">>
LineOutEmpty == <<"{", "O", "D", "}">>
LineNotJson == <<"n">>
LineBlank == <<>>

LogLines == {LineOutA, LineErrE9, LineNotJson, LineBlank}
OutputLines == {LineOutA, LineErrE9, LineOutEmpty}

RECURSIVE Join(_)
Join(ls) ==
    IF ls = <<>> THEN <<>>
    ELSE IF Len(ls) = 1 THEN Head(ls)
    ELSE Head(ls) \o <<NL>> \o Join(Tail(ls))

\* Up to MaxLines lines, each ended by "\n"
TerminatedBodies(templates) ==
    LET seqs == UNION {[1..n -> templates] : n \in 0..MaxLines}
    IN {Join(ls) \o <<NL>> : ls \in seqs \ {<<>>}} \cup {<<>>}

\* Up to MaxLines lines separated by "\n", the last one with or without it
Bodies(templates) ==
    LET seqs == UNION {[1..n -> templates] : n \in 0..MaxLines}
    IN {Join(ls) : ls \in seqs} \cup {Join(ls) \o <<NL>> : ls \in seqs}

Selectors(r) ==
    IF r = "r1" THEN {"stdout", "stderr", "both"}
    ELSE {"STDOUT", "STDERR", "BOTH"}

IsBoth(s) == s \in {"both", "BOTH"}

ContentTypes == {"application/jsonl", "text/plain"}

InitLog(revs, bodies, ctypes, statuses, selectors) ==
    /\ rev \in revs
    /\ handles = <<>>
    /\ call = NoCall
    /\ settled = NoneSettled
    /\ waits = 0
    /\ payload \in bodies
    /\ contentType \in ctypes
    /\ responseStatus \in statuses
    /\ fetches = 0
    /\ earlier = <<>>
    /\ stream \in Selectors(rev) \cap selectors
    /\ pos = 0
    /\ pending = <<>>
    /\ buffer = <<>>
    /\ lines = <<>>
    /\ gen = "start"
    /\ yielded = <<>>
    /\ error = NoError
    /\ locked = FALSE
    /\ responseBody = "none"
    /\ InitHttp
    /\ InitEntity
    /\ cuts = {}
    /\ data = <<>>

-----------------------------------------------------------------------------
(* Command.output: the body of its for await loop *)

\* command.ts:194-202 and sandbox.ts:1119-1126: data += log.data
OutputAppendRaw(r, acc, log) == acc \o log.data

\* command.ts:63-71: data += `${log.data ?? ""}\n`
OutputAppendLine(r, acc, log) == acc \o log.data \o <<NL>>

OutputAppend(r, acc, log) ==
    IF r = "r3" THEN OutputAppendLine(r, acc, log)
    ELSE OutputAppendRaw(r, acc, log)

OutputIgnoreSelector(r, sel, acc, log) == OutputAppend(r, acc, log)

\* if (stream === "BOTH" || log.type === stream) data += ...
OutputStep(r, sel, acc, log) ==
    IF IsBoth(sel) \/ LogKind(r, log) = sel
    THEN OutputAppend(r, acc, log)
    ELSE acc

-----------------------------------------------------------------------------
(* streamCommandLogs: the async generator, one action per resumption *)

\* A loop that passes over empty lines only, not over lines of whitespace
RECURSIVE SkipEmpty(_)
SkipEmpty(ls) ==
    IF ls # <<>> /\ Head(ls) = <<>> THEN SkipEmpty(Tail(ls)) ELSE ls

RECURSIVE SkipBlank(_)
\* for (const line of lines) { if (!line.trim()) continue; ...
SkipBlank(ls) ==
    IF ls # <<>> /\ Trim(Head(ls)) = <<>> THEN SkipBlank(Tail(ls)) ELSE ls

\* text.split("\n").filter((line) => line.trim())
RECURSIVE FilterBlank(_)
FilterBlank(ls) ==
    IF ls = <<>> THEN <<>>
    ELSE IF Trim(Head(ls)) = <<>> THEN FilterBlank(Tail(ls))
    ELSE <<Head(ls)>> \o FilterBlank(Tail(ls))

\* A pop that leaves the last complete line in the buffer with the rest
LinesPopKeepsLine(parts) ==
    IF Len(parts) > 1
    THEN parts[Len(parts) - 1] \o <<NL>> \o parts[Len(parts)]
    ELSE parts[1]

\* const lines = buffer.split("\n"); buffer = lines.pop() || ""
LinesPop(parts) == parts[Len(parts)]

\* The consumer receives a record: the generator is suspended at `where`
Yield(log, rest, where) ==
    /\ gen' = where
    /\ lines' = rest
    /\ yielded' = Append(yielded, log)
    /\ data' = OutputStep(rev, stream, data, log)
    /\ UNCHANGED <<error, locked>>

\* The error is caught and the sequence ends as if the stream had ended
ThrowSwallowed(e) ==
    /\ gen' = "done"
    /\ locked' = FALSE
    /\ lines' = <<>>
    /\ UNCHANGED <<yielded, data, error>>

\* The error leaves the generator past the release of the reader
ThrowWithoutFinally(e) ==
    /\ gen' = "failed"
    /\ error' = e
    /\ lines' = <<>>
    /\ UNCHANGED <<yielded, data, locked>>

\* An error leaves the generator through finally { reader.releaseLock() }
Throw(e) ==
    /\ gen' = "failed"
    /\ error' = e
    /\ locked' = FALSE
    /\ lines' = <<>>
    /\ UNCHANGED <<yielded, data>>

\* The generator returns, through the finally block when it holds the reader
Finish ==
    /\ gen' = "done"
    /\ locked' = FALSE
    /\ lines' = <<>>
    /\ UNCHANGED <<yielded, data, error>>

\* The for loop over the lines of one chunk, up to its next yield or throw;
\* when no line is left the generator awaits the next reader.read()
ForLines(ls) ==
    LET rest == SkipBlank(ls)
    IN IF rest = <<>>
       THEN /\ gen' = "read"
            /\ lines' = <<>>
            /\ UNCHANGED <<yielded, data, error, locked>>
       ELSE LET r == ParseEntry(rev, Head(rest))
            IN IF r.ok THEN Yield(r.log[1], Tail(rest), "yield")
               ELSE Throw(r.error)

\* The fallback loop of part_006: for (const line of lines) yield parseLogEntry
ForFallback(ls) ==
    IF ls = <<>> THEN Finish
    ELSE LET r == parseLogEntry(Head(ls))
         IN IF r.ok THEN Yield(r.log[1], Tail(ls), "yieldFallback")
            ELSE /\ gen' = "failed"
                 /\ error' = r.error
                 /\ lines' = <<>>
                 /\ UNCHANGED <<yielded, data, locked>>

\* contentType?.includes("application/jsonl")
IsJsonl(ct) == ct = "application/jsonl"

\* response.ok
IsOk(status) == status >= 200 /\ status <= 299

\* What streamCommandLogs throws before it reads the body: fetch rejects
\* (status 0), the response is not ok, or, in buddy-api-client.ts, the
\* content type is not JSON Lines
OpenError(r, status, ct) ==
    IF status = 0 THEN Err("TypeError", <<>>)
    ELSE IF ~IsOk(status)
    THEN Err(IF r = "r1" THEN "Error" ELSE "HttpError", <<>>)
    ELSE IF ~IsJsonl(ct) /\ r # "r1" THEN Err("Error", <<>>)
    ELSE NoError

\* A request that is sent again while the answer is 5xx or 429
FetchRetriesTransient ==
    /\ gen = "start"
    /\ fetches' = fetches + 1
    /\ IF (responseStatus >= 500 \/ responseStatus = 429) /\ fetches < 3
       THEN UNCHANGED <<gen, error, responseBody, pos, lines, yielded, data,
                        locked>>
       ELSE IF OpenError(rev, responseStatus, contentType) # NoError
       THEN /\ gen' = "failed"
            /\ error' = OpenError(rev, responseStatus, contentType)
            /\ responseBody' = IF responseStatus = 0 THEN "none" ELSE "open"
            /\ UNCHANGED <<pos, lines, yielded, data, locked>>
       ELSE IF IsJsonl(contentType)
       THEN /\ gen' = "read"
            /\ locked' = TRUE
            /\ responseBody' = "open"
            /\ UNCHANGED <<pos, lines, yielded, data, error>>
       ELSE \* part_006: the body is read as text and parsed line by line
            /\ pos' = Len(payload)
            /\ responseBody' = "closed"
            /\ ForFallback(FilterBlank(Split(Response_text(payload))))
    /\ UNCHANGED <<httpVars, waitVars, rev, entityVars, payload, contentType,
                 responseStatus, earlier, pending, buffer, cuts, stream>>

\* First next(): the request, the content-type gate, getReader()
Fetch ==
    /\ gen = "start"
    /\ fetches' = fetches + 1
    /\ IF OpenError(rev, responseStatus, contentType) # NoError
       THEN /\ gen' = "failed"
            /\ error' = OpenError(rev, responseStatus, contentType)
            /\ responseBody' = IF responseStatus = 0 THEN "none" ELSE "open"
            /\ UNCHANGED <<pos, lines, yielded, data, locked>>
       ELSE IF IsJsonl(contentType)
       THEN /\ gen' = "read"
            /\ locked' = TRUE
            /\ responseBody' = "open"
            /\ UNCHANGED <<pos, lines, yielded, data, error>>
       ELSE \* part_006: the body is read as text and parsed line by line
            /\ pos' = Len(payload)
            /\ responseBody' = "closed"
            /\ ForFallback(FilterBlank(Split(Response_text(payload))))
    /\ UNCHANGED <<httpVars, waitVars, rev, entityVars, payload, contentType,
                 responseStatus, earlier, pending, buffer, cuts, stream>>

\* reader.read() resolves with the next n bytes of the body
ReadChunk(n) ==
    /\ gen = "read"
    /\ pos + n <= Len(payload)
    /\ LET chunk == SubSeq(payload, pos + 1, pos + n)
           d == TextDecoder_decode(pending, chunk)
           parts == Split(buffer \o d.out)
       IN /\ pending' = d.pend
          /\ buffer' = LinesPop(parts)
          /\ pos' = pos + n
          /\ cuts' = cuts \cup
                (IF d.pend # <<>> THEN {"char"} ELSE {}) \cup
                (IF LinesPop(parts) # <<>> /\ pos + n < Len(payload)
                 THEN {"object"} ELSE {})
          /\ ForLines(SubSeq(parts, 1, Len(parts) - 1))
    /\ UNCHANGED <<httpVars, waitVars, rev, entityVars, payload, contentType,
                 responseStatus, fetches, earlier, stream, responseBody>>

\* The loop ends and what is left in the buffer is dropped
ReadDoneDropsRest ==
    /\ gen = "read"
    /\ pos = Len(payload)
    /\ Finish
    /\ responseBody' = "closed"
    /\ UNCHANGED <<httpVars, waitVars, rev, entityVars, payload, contentType,
                 responseStatus, fetches, earlier, pos, pending, buffer,
                   cuts, stream>>

\* reader.read() resolves with done: the rest of the buffer is the last line
ReadDone ==
    /\ gen = "read"
    /\ pos = Len(payload)
    /\ IF Trim(buffer) # <<>>
       THEN LET r == ParseEntry(rev, buffer)
            IN IF r.ok THEN Yield(r.log[1], <<>>, "yieldLast")
               ELSE Throw(r.error)
       ELSE Finish
    /\ responseBody' = "closed"
    /\ UNCHANGED <<httpVars, waitVars, rev, entityVars, payload, contentType,
                 responseStatus, fetches, earlier, pos, pending, buffer, cuts,
                   stream>>

\* reader.read() rejects: the connection dropped
ReadFail ==
    /\ gen = "read"
    /\ Throw(Err("TypeError", <<>>))
    /\ responseBody' = "errored"
    /\ UNCHANGED <<httpVars, waitVars, rev, entityVars, payload, contentType,
                 responseStatus, fetches, earlier, pos, pending, buffer, cuts,
                   stream>>

\* The consumer asks for the next record
Resume ==
    /\ gen \in {"yield", "yieldLast", "yieldFallback"}
    /\ IF gen = "yield" THEN ForLines(lines)
       ELSE IF gen = "yieldFallback" THEN ForFallback(lines)
       ELSE Finish
    /\ UNCHANGED <<httpVars, waitVars, rev, entityVars, payload, contentType,
                 responseStatus, fetches, earlier, pos, pending, buffer, cuts,
                   stream, responseBody>>

\* The consumer leaves its loop early: generator.return() runs the finally,
\* which is reader.releaseLock() and nothing else: the body stays as it is
Return ==
    /\ gen \in {"yield", "yieldLast", "yieldFallback"}
    /\ gen' = "returned"
    /\ locked' = FALSE
    /\ lines' = <<>>
    /\ UNCHANGED <<httpVars, waitVars, rev, entityVars, payload, contentType,
                 responseStatus, fetches, earlier, pos, pending, buffer, cuts,
                   stream, yielded, data, error, responseBody>>

MaxLogCalls == 2

\* The states in which a log sequence is over: it ended, it threw, or the
\* consumer left its loop
Over == {"done", "failed", "returned"}

\* A second call of logs() whose generator goes on with the response, the
\* reader and the buffer of the call before it
LogsAgainResumes ==
    /\ gen \in Over \cup {"start"}
    /\ Len(earlier) < MaxLogCalls - 1
    /\ earlier' = Append(earlier, [records |-> yielded, gen |-> gen])
    /\ gen' = IF gen = "start" THEN "start" ELSE "read"
    /\ yielded' = <<>>
    /\ data' = <<>>
    /\ error' = NoError
    /\ UNCHANGED <<httpVars, waitVars, rev, entityVars, payload, contentType,
                   responseStatus, fetches, cuts, stream, pos, pending,
                   buffer, lines, locked, responseBody>>

\* The caller calls logs() again and iterates the new generator.  The call
\* before it is over, or was never iterated.  Command.logs() returns
\* client.streamCommandLogs(...), an async generator function: every call
\* makes a generator of its own, whose fetch, reader, decoder and buffer are
\* locals of that call and start afresh
LogsAgain ==
    /\ gen \in Over \cup {"start"}
    /\ Len(earlier) < MaxLogCalls - 1
    /\ earlier' = Append(earlier, [records |-> yielded, gen |-> gen])
    /\ gen' = "start"
    /\ pos' = 0
    /\ pending' = <<>>
    /\ buffer' = <<>>
    /\ lines' = <<>>
    /\ yielded' = <<>>
    /\ data' = <<>>
    /\ error' = NoError
    /\ locked' = FALSE
    /\ responseBody' = "none"
    /\ UNCHANGED <<httpVars, waitVars, rev, entityVars, payload, contentType,
                   responseStatus, fetches, cuts, stream>>

NextLog ==
    \/ Fetch
    \/ \E n \in 1..Len(payload) : ReadChunk(n)
    \/ ReadDone
    \/ ReadFail
    \/ Resume
    \/ Return

\* The log sequence of both clients, on valid, malformed and blank lines,
\* under both content types, consumed by output("BOTH")
SpecLogs ==
    InitLog({"r1", "r3"}, Bodies(LogLines), ContentTypes, {200},
            {"BOTH", "both"})
    /\ [][NextLog]_vars

LineOther == <<"{", "X", "D", "a", "}">>
LineNoData == <<"{", "O", "}">>
MalformedLines == {LineNotJson, LineOther, LineNoData}

\* The statuses of the logs response: fetch rejected, ok, not ok
LogStatuses == {0, 200, 404, 429, 500}

\* The log sequence of both clients when the request fails, the content
\* type is not the expected one, or a line is malformed in one of the
\* three ways
SpecLogErrors ==
    InitLog({"r1", "r3"}, Bodies({LineOutA} \cup MalformedLines),
            ContentTypes, LogStatuses, {"BOTH", "both"})
    /\ [][NextLog]_vars

NextLogsAgain ==
    \/ Fetch
    \/ \E n \in 1..Len(payload) : ReadChunk(n)
    \/ ReadDone
    \/ ReadFail
    \/ Resume
    \/ Return
    \/ LogsAgain

\* logs() called and iterated more than once on one handle, the server
\* answering each request with the same response
SpecLogsAgain ==
    InitLog({"r1", "r3"},
            {Join(<<LineOutA, LineErrE9>>), Join(<<LineOutA, LineNotJson>>)},
            ContentTypes, {200, 500}, {"BOTH", "both"})
    /\ [][NextLogsAgain]_vars

LineSpace == <<" ">>

\* The log sequence on bodies of valid records, empty lines and lines of
\* whitespace, the last line with or without its "\n"
SpecBlank ==
    InitLog({"r1", "r3"}, Bodies({LineOutA, LineBlank, LineSpace}),
            ContentTypes, {200}, {"BOTH", "both"})
    /\ [][NextLog]_vars

\* output(stream) of the three revisions of Command, for every selector,
\* on JSON Lines responses of valid records
SpecOutput ==
    InitLog(Revisions, TerminatedBodies(OutputLines), {"application/jsonl"},
            {200},
            {"STDOUT", "STDERR", "BOTH", "stdout", "stderr", "both"})
    /\ [][NextLog]_vars

-----------------------------------------------------------------------------
(* Command.wait and the polling loop *)

MaxPolls == 3
MaxWaits == 2

TerminalStatuses == {"SUCCESSFUL", "FAILED"}


\* What getCommandDetails may answer while the command runs: in progress,
\* a status the client does not know, no status at all
NonTerminalResponses ==
    {Response({"id", "status"}, st, 0) : st \in {"INPROGRESS", "OTHER"}}
    \cup {Response({"id"}, "", 0)}

\* ... and once it has ended, with or without an exit code
TerminalResponses ==
    {Response({"id", "status", "exit_code"}, "SUCCESSFUL", 0),
     Response({"id", "status", "exit_code"}, "FAILED", 42)}
    \cup {Response({"id", "status"}, st, 0) : st \in TerminalStatuses}

Responses == NonTerminalResponses \cup TerminalResponses

IsTerminal(resp) ==
    "status" \in resp.has /\ resp.status \in TerminalStatuses

\* A value that may be undefined
Defined(v) == [defined |-> TRUE, value |-> v]
Undefined == [defined |-> FALSE, value |-> 0]

\* new Command({commandResponse, client, sandboxId})
NewCommand(resp) ==
    [cls |-> "Command", commandResponse |-> resp, _exitCode |-> 0,
     from |-> "runCommand"]

\* new CommandFinished(...): this.#_exitCode = commandResponse.exit_code ?? 0
NewCommandFinished(resp) ==
    [cls |-> "CommandFinished", commandResponse |-> resp,
     _exitCode |-> IF "exit_code" \in resp.has THEN resp.exit_code ELSE 0,
     from |-> "runCommand"]

\* get status() of r1 and r2, data.status of r3
StatusOf(h) ==
    IF "status" \in h.commandResponse.has
    THEN Defined(h.commandResponse.status)
    ELSE [defined |-> FALSE, value |-> ""]

\* get exitCode(), overridden by CommandFinished; data.exit_code of r3
ExitCodeOf(h) ==
    IF h.cls = "CommandFinished" THEN Defined(h._exitCode)
    ELSE IF "exit_code" \in h.commandResponse.has
    THEN Defined(h.commandResponse.exit_code)
    ELSE Undefined

\* wait() built on the handle's own response instead of the final one
WaitResultFromOriginal(r, resp) ==
    [(IF r = "r3" THEN NewCommand(handles[call.on].commandResponse)
      ELSE NewCommandFinished(handles[call.on].commandResponse))
     EXCEPT !.from = "wait"]

\* The object wait() builds from the final response; `from` records that
\* wait() built it
WaitResult(r, resp) ==
    [(IF r = "r3" THEN NewCommand(resp) ELSE NewCommandFinished(resp))
     EXCEPT !.from = "wait"]

InitWait ==
    /\ rev \in Revisions
    /\ \E resp \in Responses : handles = <<NewCommand(resp)>>
    /\ call = NoCall
    /\ settled = NoneSettled
    /\ waits = 0
    /\ payload = <<>>
    /\ contentType = "application/jsonl"
    /\ responseStatus = 200
    /\ fetches = 0
    /\ earlier = <<>>
    /\ stream = "BOTH"
    /\ pos = 0
    /\ pending = <<>>
    /\ buffer = <<>>
    /\ lines = <<>>
    /\ gen = "start"
    /\ yielded = <<>>
    /\ error = NoError
    /\ locked = FALSE
    /\ responseBody = "none"
    /\ InitHttp
    /\ InitEntity
    /\ cuts = {}
    /\ data = <<>>

\* The caller calls wait() on one of its handles.  CommandFinished.wait()
\* is Promise.resolve(this); Command.wait() enters pollForCommandCompletion,
\* which sends the first getCommandDetails
CallWait(i) ==
    /\ call.pc = "idle"
    /\ waits < MaxWaits
    /\ i \in 1..Len(handles)
    /\ waits' = waits + 1
    /\ IF handles[i].cls = "CommandFinished"
       THEN /\ settled' = Settled(i, i, NoCall, handles[i].commandResponse,
                                  FALSE)
            /\ UNCHANGED <<handles, call>>
       ELSE /\ call' = [NoCall EXCEPT !.pc = "inflight", !.on = i,
                                      !.polls = 1]
            /\ UNCHANGED <<handles, settled>>
    /\ UNCHANGED <<rev, entityVars, logVars, httpVars>>

\* The loop leaves on SUCCESSFUL only
LoopExitsOnSuccessOnly(resp) == resp.status = "SUCCESSFUL"

\* The loop leaves on any response that carries a status
LoopExitsOnAnyStatus(resp) == "status" \in resp.has

\* commandResponse.status === "SUCCESSFUL" || ... === "FAILED"
LoopExits(resp) ==
    resp.status = "SUCCESSFUL" \/ resp.status = "FAILED"

\* wait() stores the final response in the handle it was called on
PollResponseUpdatesInPlace(resp) ==
    /\ call.pc = "inflight"
    /\ LET c == [call EXCEPT
                   !.nonTerminal = IF IsTerminal(resp) THEN @ ELSE @ + 1,
                   !.odd = @ \/ (~IsTerminal(resp) /\
                                 resp.status # "INPROGRESS")]
       IN IF LoopExits(resp)
          THEN /\ handles' = [handles EXCEPT
                                ![call.on] = WaitResult(rev, resp)]
               /\ settled' = Settled(call.on, call.on, c, resp, FALSE)
               /\ call' = NoCall
          ELSE /\ call' = [c EXCEPT !.pc = "sleep"]
               /\ UNCHANGED <<handles, settled>>
    /\ UNCHANGED <<waits, rev, entityVars, logVars, httpVars>>

\* A FAILED status makes the loop throw instead of returning the response
PollResponseRaisesOnFailed(resp) ==
    /\ call.pc = "inflight"
    /\ LET c == [call EXCEPT
                   !.nonTerminal = IF IsTerminal(resp) THEN @ ELSE @ + 1,
                   !.odd = @ \/ (~IsTerminal(resp) /\
                                 resp.status # "INPROGRESS")]
       IN IF resp.status = "FAILED"
          THEN /\ settled' = Settled(call.on, 0, c, resp, TRUE)
               /\ call' = NoCall
               /\ UNCHANGED handles
          ELSE IF LoopExits(resp)
          THEN /\ handles' = Append(handles, WaitResult(rev, resp))
               /\ settled' = Settled(call.on, Len(handles) + 1, c, resp,
                                     FALSE)
               /\ call' = NoCall
          ELSE /\ call' = [c EXCEPT !.pc = "sleep"]
               /\ UNCHANGED <<handles, settled>>
    /\ UNCHANGED <<waits, rev, entityVars, logVars, httpVars>>

\* The loop gives up with a timeout error at the second non-terminal answer
PollResponseWithDeadline(resp) ==
    /\ call.pc = "inflight"
    /\ LET c == [call EXCEPT
                   !.nonTerminal = IF IsTerminal(resp) THEN @ ELSE @ + 1,
                   !.odd = @ \/ (~IsTerminal(resp) /\
                                 resp.status # "INPROGRESS")]
       IN IF LoopExits(resp)
          THEN /\ handles' = Append(handles, WaitResult(rev, resp))
               /\ settled' = Settled(call.on, Len(handles) + 1, c, resp,
                                     FALSE)
               /\ call' = NoCall
          ELSE IF c.nonTerminal >= 2
          THEN /\ settled' = Settled(call.on, 0,
                                     [c EXCEPT !.error = "Timeout"], resp,
                                     TRUE)
               /\ call' = NoCall
               /\ UNCHANGED handles
          ELSE /\ call' = [c EXCEPT !.pc = "sleep"]
               /\ UNCHANGED <<handles, settled>>
    /\ UNCHANGED <<waits, rev, entityVars, logVars, httpVars>>

\* getCommandDetails resolves with resp
PollResponse(resp) ==
    /\ call.pc = "inflight"
    /\ LET c == [call EXCEPT
                   !.nonTerminal = IF IsTerminal(resp) THEN @ ELSE @ + 1,
                   !.odd = @ \/ (~IsTerminal(resp) /\
                                 resp.status # "INPROGRESS")]
       IN IF LoopExits(resp)
          THEN /\ handles' = Append(handles, WaitResult(rev, resp))
               /\ settled' = Settled(call.on, Len(handles) + 1, c, resp,
                                     FALSE)
               /\ call' = NoCall
          ELSE /\ call' = [c EXCEPT !.pc = "sleep"]
               /\ UNCHANGED <<handles, settled>>
    /\ UNCHANGED <<waits, rev, entityVars, logVars, httpVars>>

\* What getCommandDetails may reject with: the HttpError of the transport
\* or of a response that does not fit its schema, and in
\* buddy-api-client.ts the ZodError of request data that does not fit
PollErrors(r) == IF r = "r1" THEN {"HttpError"} ELSE {"HttpError", "ZodError"}

\* The loop catches the error of a poll and goes on to the next one
PollFailSwallowed(kind) ==
    /\ call.pc = "inflight"
    /\ call' = [call EXCEPT !.pc = "sleep", !.error = kind]
    /\ UNCHANGED <<handles, settled, waits, rev, entityVars, logVars, httpVars>>

\* getCommandDetails rejects: the error leaves the loop and wait()
PollFail(kind) ==
    /\ call.pc = "inflight"
    /\ settled' = Settled(call.on, 0, [call EXCEPT !.error = kind],
                          NoResponse, TRUE)
    /\ call' = NoCall
    /\ UNCHANGED <<handles, waits, rev, entityVars, logVars, httpVars>>

\* A timer that fires every interval, whether or not the poll before has
\* been answered
TimerFireEveryInterval ==
    /\ call.pc \in {"sleep", "inflight"}
    /\ call.polls < MaxPolls
    /\ call' = [call EXCEPT !.pc = "inflight", !.polls = @ + 1]
    /\ UNCHANGED <<handles, settled, waits, rev, entityVars, logVars,
                   httpVars>>

\* setTimeout(resolve, pollIntervalMs) fires: the loop polls again
TimerFire ==
    /\ call.pc = "sleep"
    /\ call.polls < MaxPolls
    /\ call' = [call EXCEPT !.pc = "inflight", !.polls = @ + 1]
    /\ UNCHANGED <<handles, settled, waits, rev, entityVars, logVars, httpVars>>

NextWait ==
    \/ \E i \in 1..Len(handles) : CallWait(i)
    \/ \E resp \in Responses : PollResponse(resp)
    \/ \E kind \in PollErrors(rev) : PollFail(kind)
    \/ TimerFire

SpecWait == InitWait /\ [][NextWait]_vars

\* A poll is answered, by a server that reports a terminal status at the
\* MaxPolls-th poll of a wait() at the latest
PollAnswer(resp) ==
    /\ call.polls = MaxPolls => IsTerminal(resp)
    /\ PollResponse(resp)

NextWaitFair ==
    \/ \E i \in 1..Len(handles) : CallWait(i)
    \/ \E resp \in Responses : PollAnswer(resp)
    \/ TimerFire

\* wait() when no poll fails and the server eventually reports a terminal
\* status: the timer of setTimeout fires once it is set, and a poll that
\* has been sent is answered
SpecWaitFair ==
    /\ InitWait
    /\ [][NextWaitFair]_vars
    /\ WF_vars(TimerFire)
    /\ WF_vars(\E resp \in Responses : PollAnswer(resp))

-----------------------------------------------------------------------------
(* Sandbox.runCommand *)

\* No logs request has been made
NoLogs ==
    /\ payload = <<>>
    /\ contentType = "application/jsonl"
    /\ responseStatus = 200
    /\ fetches = 0
    /\ earlier = <<>>
    /\ stream = "BOTH"
    /\ pos = 0
    /\ pending = <<>>
    /\ buffer = <<>>
    /\ lines = <<>>
    /\ gen = "start"
    /\ yielded = <<>>
    /\ error = NoError
    /\ locked = FALSE
    /\ responseBody = "none"
    /\ cuts = {}
    /\ data = <<>>

\* outputStdout || outputStderr, where `streams` says that the caller left
\* at least one of stdout and stderr other than null.  sandbox.ts:330-331
\* has stdout ?? process.stdout, which null does not disable
Attached(r, streams) == r = "r1" \/ streams

\* runCommand(options) is called: executeCommand is sent
CallRunCommand(detached, streams) ==
    /\ run.pc = "idle"
    /\ run' = [run EXCEPT !.pc = "submit", !.detached = detached,
                          !.attached = Attached(rev, streams)]
    /\ UNCHANGED <<rev, logVars, waitVars, httpVars, until, pair, life>>

\* command.wait() inside runCommand: the first poll is sent
RunWaits(h) ==
    call' = [NoCall EXCEPT !.pc = "inflight", !.on = h, !.polls = 1]

\* executeCommand resolves with resp: the Command is built, the output is
\* piped when streams are attached, and the detached flag is looked at.
\* part_004 awaits the piping before it looks at the flag
SubmitResponse(resp) ==
    /\ run.pc = "submit"
    /\ handles' = Append(handles, NewCommand(resp))
    /\ LET h == Len(handles) + 1
           started == [run EXCEPT
                         !.handle = h,
                         !.logs = IF run.attached THEN "open" ELSE "none"]
       IN IF rev = "r2" /\ run.attached
          THEN /\ run' = [started EXCEPT !.pc = "streaming"]
               /\ UNCHANGED call
          ELSE IF run.detached
          THEN /\ run' = [started EXCEPT !.pc = "returned", !.result = h]
               /\ UNCHANGED call
          ELSE /\ run' = [started EXCEPT !.pc = "wait"]
               /\ RunWaits(h)
    /\ UNCHANGED <<rev, logVars, settled, waits, httpVars, until, pair, life>>

\* executeCommand rejects
SubmitFails ==
    /\ run.pc = "submit"
    /\ run' = [run EXCEPT !.pc = "rejected"]
    /\ UNCHANGED <<rev, logVars, waitVars, httpVars, until, pair, life>>

\* The log stream of the command ends: the piping loop is over
LogsEnd ==
    /\ run.logs = "open"
    /\ IF run.pc = "streaming"
       THEN IF run.detached
            THEN /\ run' = [run EXCEPT !.logs = "ended", !.pc = "returned",
                                       !.result = run.handle]
                 /\ UNCHANGED call
            ELSE /\ run' = [run EXCEPT !.logs = "ended", !.pc = "wait"]
                 /\ RunWaits(run.handle)
       ELSE /\ run' = [run EXCEPT !.logs = "ended"]
            /\ UNCHANGED call
    /\ UNCHANGED <<rev, logVars, handles, settled, waits, httpVars, until, pair, life>>

\* The log stream of the command fails: the piping loop throws.  The await
\* of part_004:224 and the Promise.all of sandbox.ts:820-823 reject
\* runCommand with it; the loop of sandbox.ts:347-355 is started with `void`
\* and that of a detached call has been left behind, so nothing awaits them
LogsFail ==
    /\ run.logs = "open"
    /\ run' = IF \/ run.pc = "streaming"
                 \/ rev = "r3" /\ run.pc = "wait"
              THEN [run EXCEPT !.logs = "failed", !.pc = "rejected"]
              ELSE [run EXCEPT !.logs = "failed"]
    /\ UNCHANGED <<rev, logVars, waitVars, httpVars, until, pair, life>>

\* command.wait() has settled: runCommand returns what it resolved with, in
\* sandbox.ts:820-823 once the piping is over too, or rejects with its error
RunSettles ==
    /\ run.pc = "wait"
    /\ call.pc = "idle"
    /\ settled.on = run.handle
    /\ settled.failed \/ rev # "r3" \/ run.logs # "open"
    /\ run' = IF settled.failed THEN [run EXCEPT !.pc = "rejected"]
              ELSE [run EXCEPT !.pc = "returned", !.result = settled.result]
    /\ UNCHANGED <<rev, logVars, waitVars, httpVars, until, pair, life>>

InitRun ==
    /\ rev \in Revisions
    /\ handles = <<>>
    /\ call = NoCall
    /\ settled = NoneSettled
    /\ waits = 0
    /\ NoLogs
    /\ InitHttp
    /\ InitEntity

NextRun ==
    \/ \E detached \in BOOLEAN, streams \in BOOLEAN :
           CallRunCommand(detached, streams)
    \/ \E resp \in Responses : SubmitResponse(resp)
    \/ SubmitFails
    \/ LogsEnd
    \/ LogsFail
    \/ RunSettles
    \/ \E resp \in Responses : PollResponse(resp)
    \/ \E kind \in PollErrors(rev) : PollFail(kind)
    \/ TimerFire

SpecRun == InitRun /\ [][NextRun]_vars

-----------------------------------------------------------------------------
(* Sandbox.waitUntilReady, waitUntilRunning, waitUntilStopped *)

\* The clock runs from 0 to MaxClock; maxWaitMs is MaxWait ticks of it
MaxClock == 4
MaxWait == 2

WaitOps == {"ready", "running", "stopped"}

\* What refresh() may find: data.status and data.setup_status, where
\* STARTING and INPROGRESS stand for every value the loops do not test for
SandboxStatuses == {"STARTING", "RUNNING", "STOPPED", "FAILED"}
SetupStatuses == {"INPROGRESS", "SUCCESS", "FAILED"}

\* The test the loop returns on
IsAwaited(op, status, setup) ==
    \/ op = "ready" /\ setup = "SUCCESS"
    \/ op = "running" /\ status = "RUNNING"
    \/ op = "stopped" /\ status = "STOPPED"

\* The test the loop throws on
IsFailure(op, status, setup) ==
    IF op = "ready" THEN setup = "FAILED" ELSE status = "FAILED"

\* Whether the loop has `if (Date.now() - startTime > maxWaitMs) throw`:
\* waitUntilReady has no startTime and no maxWaitMs
HasDeadline(op) == op # "ready"

\* Time passes
Tick ==
    /\ until.now < MaxClock
    /\ until' = [until EXCEPT !.now = @ + 1]
    /\ UNCHANGED <<rev, logVars, waitVars, httpVars, run, pair, life>>

\* waitUntil...() is called: startTime = Date.now(), the first refresh()
CallWaitUntil(op) ==
    /\ until.pc = "idle"
    /\ until' = [until EXCEPT !.pc = "refresh", !.op = op,
                              !.startTime = until.now,
                              !.checked = until.now]
    /\ UNCHANGED <<rev, logVars, waitVars, httpVars, run, pair, life>>

\* refresh() resolves: the loop returns, throws, or sleeps
RefreshResponse(status, setup) ==
    /\ until.pc = "refresh"
    /\ LET u == [until EXCEPT !.checked = until.now]
       IN until' =
            IF IsAwaited(until.op, status, setup)
            THEN [u EXCEPT !.pc = "resolved"]
            ELSE IF IsFailure(until.op, status, setup)
            THEN [u EXCEPT !.pc = "rejected", !.error = "failed"]
            ELSE IF HasDeadline(until.op)
                    /\ until.now - until.startTime > MaxWait
            THEN [u EXCEPT !.pc = "rejected", !.error = "timeout"]
            ELSE [u EXCEPT !.pc = "sleep"]
    /\ UNCHANGED <<rev, logVars, waitVars, httpVars, run, pair, life>>

\* refresh() rejects
RefreshFails ==
    /\ until.pc = "refresh"
    /\ until' = [until EXCEPT !.pc = "rejected", !.error = "refresh"]
    /\ UNCHANGED <<rev, logVars, waitVars, httpVars, run, pair, life>>

\* setTimeout(resolve, pollIntervalMs) fires: the loop refreshes again
UntilTimer ==
    /\ until.pc = "sleep"
    /\ until' = [until EXCEPT !.pc = "refresh"]
    /\ UNCHANGED <<rev, logVars, waitVars, httpVars, run, pair, life>>

InitUntil ==
    /\ rev = "r3"
    /\ handles = <<>>
    /\ call = NoCall
    /\ settled = NoneSettled
    /\ waits = 0
    /\ NoLogs
    /\ InitHttp
    /\ InitEntity

NextUntil ==
    \/ Tick
    \/ \E op \in WaitOps : CallWaitUntil(op)
    \/ \E status \in SandboxStatuses, setup \in SetupStatuses :
           RefreshResponse(status, setup)
    \/ RefreshFails
    \/ UntilTimer

SpecUntil == InitUntil /\ [][NextUntil]_vars

-----------------------------------------------------------------------------
(* Two Command handles of one client, used at the same time *)

MaxRecords == 2

\* The command id is read from a slot that all handles write: the id of the
\* handle that built a request last
RequestIdShared(h) == IF pair.last = 0 THEN h ELSE pair.last

\* this.commandId, set by the constructor from commandResponse.id
RequestId(h) == h

\* wait() is called on handle h: the first getCommandDetails is sent
PairWait(h) ==
    /\ pair.op[h].pc = "idle"
    /\ pair' = [pair EXCEPT !.op[h].pc = "request", !.op[h].polls = 1,
                            !.op[h].asked = RequestId(h), !.last = h]
    /\ UNCHANGED <<rev, logVars, waitVars, httpVars, run, until, life>>

\* The server answers the poll of h with the command its path names
PairServerAnswers(h) ==
    /\ pair.op[h].pc = "request"
    /\ pair' = [pair EXCEPT
                  !.op[h].pc = "response",
                  !.op[h].answer =
                      Details(pair.op[h].asked,
                              pair.server[pair.op[h].asked])]
    /\ UNCHANGED <<rev, logVars, waitVars, httpVars, run, until, life>>

\* The answer reaches the loop of h: it returns it or sleeps
PairDeliver(h) ==
    /\ pair.op[h].pc = "response"
    /\ pair' = IF LoopExits(pair.op[h].answer)
               THEN [pair EXCEPT !.op[h].pc = "done",
                                 !.op[h].result = pair.op[h].answer]
               ELSE [pair EXCEPT !.op[h].pc = "sleep"]
    /\ UNCHANGED <<rev, logVars, waitVars, httpVars, run, until, life>>

\* The timer of h fires: its next getCommandDetails is sent
PairTimer(h) ==
    /\ pair.op[h].pc = "sleep"
    /\ pair.op[h].polls < MaxPolls
    /\ pair' = [pair EXCEPT !.op[h].pc = "request", !.op[h].polls = @ + 1,
                            !.op[h].asked = RequestId(h), !.last = h]
    /\ UNCHANGED <<rev, logVars, waitVars, httpVars, run, until, life>>

\* Command c ends at the server
ServerFinishes(c, st) ==
    /\ pair.server[c] = "INPROGRESS"
    /\ pair' = [pair EXCEPT !.server[c] = st]
    /\ UNCHANGED <<rev, logVars, waitVars, httpVars, run, until, life>>

\* logs({follow: true}) of h is iterated: the logs request is sent
PairLogs(h) ==
    /\ pair.op[h].lpc = "idle"
    /\ pair' = [pair EXCEPT !.op[h].lpc = "open",
                            !.op[h].lasked = RequestId(h), !.last = h]
    /\ UNCHANGED <<rev, logVars, waitVars, httpVars, run, until, life>>

\* The next record of the command the request names arrives on the
\* response of h and is yielded by its generator
PairLogRecord(h) ==
    /\ pair.op[h].lpc = "open"
    /\ Len(pair.op[h].records) < MaxRecords
    /\ pair' = [pair EXCEPT
                  !.op[h].records =
                      Append(@, [cmd |-> pair.op[h].lasked,
                                 seq |-> Len(@) + 1])]
    /\ UNCHANGED <<rev, logVars, waitVars, httpVars, run, until, life>>

\* The command has ended and the server closes the stream of h
PairLogEnd(h) ==
    /\ pair.op[h].lpc = "open"
    /\ pair.server[pair.op[h].lasked] \in TerminalStatuses
    /\ pair' = [pair EXCEPT !.op[h].lpc = "done"]
    /\ UNCHANGED <<rev, logVars, waitVars, httpVars, run, until, life>>

InitPair ==
    /\ rev = "r3"
    /\ handles = <<>>
    /\ call = NoCall
    /\ settled = NoneSettled
    /\ waits = 0
    /\ NoLogs
    /\ InitHttp
    /\ InitEntity

NextPair ==
    \/ \E h \in PairHandles : PairWait(h)
    \/ \E h \in PairHandles : PairServerAnswers(h)
    \/ \E h \in PairHandles : PairDeliver(h)
    \/ \E h \in PairHandles : PairTimer(h)
    \/ \E c \in PairHandles, st \in TerminalStatuses : ServerFinishes(c, st)
    \/ \E h \in PairHandles : PairLogs(h)
    \/ \E h \in PairHandles : PairLogRecord(h)
    \/ \E h \in PairHandles : PairLogEnd(h)

SpecPair == InitPair /\ [][NextPair]_vars

-----------------------------------------------------------------------------
(* Sandbox.start, stop, restart, refresh, destroy and withErrorHandler *)

MaxCalls == 2
MaxChecks == 2

LifeOps == {"refresh", "destroy", "start", "stop", "restart"}

\* An error as thrown by the client or by the operation itself
Raw(kind, statusCode) ==
    [kind |-> kind, code |-> "none", statusCode |-> statusCode, layers |-> 0]

\* errors/index.ts:98-133: what the catch block of withErrorHandler throws
\* for the error e its callback threw.  layers counts the BuddySDKErrors
\* built on the way
withErrorHandler(e) ==
    IF e.kind = "BuddySDKError" THEN e
    ELSE IF e.kind = "HttpError"
    THEN [kind |-> "BuddySDKError", code |-> "HTTP_ERROR",
          statusCode |-> e.statusCode, layers |-> e.layers + 1]
    ELSE IF e.kind = "ZodError"
    THEN [kind |-> "BuddySDKError", code |-> "VALIDATION_ERROR",
          statusCode |-> -1, layers |-> e.layers + 1]
    ELSE [kind |-> "BuddySDKError", code |-> "GENERIC_ERROR",
          statusCode |-> -1, layers |-> e.layers + 1]

\* The error e after it has left n nested withErrorHandler callbacks
RECURSIVE Escapes(_, _)
Escapes(n, e) == IF n = 0 THEN e ELSE Escapes(n - 1, withErrorHandler(e))

\* The number of withErrorHandler callbacks around a throw site.  The
\* Sandbox of sandbox.ts:135-540 (r1) has none.  In part_004 (r2) every
\* method body, #ensureId() included, is inside the method's callback.  At
\* sandbox.ts:601-1040 (r3) `const sandboxId = this.initializedId` stands
\* before the method's own callback.
\*   "id"      the id is read when the operation is called
\*   "request" the operation's own client call rejects
\*   "first"   the refresh() that start and stop begin with rejects
\*   "enter"   the id is read when a waitUntil... is entered
\*   "loop"    a waitUntil... loop throws (failed, timed out)
\*   "poll"    the refresh() of a waitUntil... loop rejects
\*   "pollId"  the id is read by the refresh() of a waitUntil... loop
Handlers(r, site) ==
    IF r = "r1" THEN 0
    ELSE IF site = "id" THEN (IF r = "r3" THEN 0 ELSE 1)
    ELSE IF site = "request" THEN 1
    ELSE IF site = "first" THEN 2
    ELSE IF site = "enter" THEN (IF r = "r3" THEN 1 ELSE 3)
    ELSE IF site = "loop" THEN 2
    ELSE IF site = "poll" THEN 3
    ELSE (IF r = "r3" THEN 2 ELSE 3)

\* What the id getter throws: SandboxError (sandbox.ts:159-166), a plain
\* Error (part_004:80-87, sandbox.ts:612-620)
IdError(r) == Raw(IF r = "r1" THEN "SandboxError" ELSE "Error", -1)

\* What a waitUntil... loop throws
LoopError(r) == Raw(IF r = "r1" THEN "SandboxNotReadyError" ELSE "Error", -1)

\* What a rejected client call throws: an HttpError of the transport with
\* its status, or the error of the request-data validation
RequestErrors(r) ==
    {Raw("HttpError", 0), Raw("HttpError", 500),
     Raw(IF r = "r1" THEN "ValidationError" ELSE "ZodError", -1)}

\* The waiting phases of an operation after its request has been answered
Phases(r, op) ==
    IF op = "start"
    THEN (IF r = "r3" THEN <<"ready", "running">> ELSE <<"running">>)
    ELSE IF op = "stop" THEN <<"stopped">>
    ELSE IF op = "restart" THEN <<"running", "ready">>
    ELSE <<>>

\* start() and stop() of sandbox.ts:956-1017 begin with refresh()
RefreshesFirst(r, op) == r = "r3" /\ op \in {"start", "stop"}

\* The state the operation decides on is not known before that refresh()
\* has resolved
NotRefreshed == SandboxData("none", "none", TRUE)

\* The test after that refresh(): nothing to do
AlreadyThere(op, d) ==
    \/ op = "start" /\ d.setup = "SUCCESS" /\ d.status = "RUNNING"
    \/ op = "stop" /\ d.status = "STOPPED"

\* The operation rejects with what is left of e after the handlers
Rejects(l, site, e) ==
    [l EXCEPT !.pc = "rejected", !.raw = e,
              !.thrown = Escapes(Handlers(rev, site), e)]

\* The operation goes on to the phases ps, or resolves when none is left.
\* Entering a waitUntil... reads the id (sandbox.ts:856, 885, 922); in the
\* older revisions the refresh() of its first iteration does
Enters(l, ps) ==
    IF ps = <<>> THEN [l EXCEPT !.pc = "resolved", !.todo = <<>>]
    ELSE IF ~l.data.id THEN Rejects(l, "enter", IdError(rev))
    ELSE [l EXCEPT !.pc = Head(ps), !.todo = Tail(ps), !.checks = 1]

\* The client call of the operation is sent
Sends(l) == [l EXCEPT !.pc = "request", !.sent = @ + 1]

\* A lifecycle operation is called
CallOp(op) ==
    /\ life.pc \in {"idle", "resolved", "rejected"}
    /\ life.calls < MaxCalls
    /\ LET l == [life EXCEPT !.op = op, !.calls = @ + 1, !.sent = 0,
                             !.checks = 0, !.todo = <<>>,
                             !.before = IF RefreshesFirst(rev, op)
                                        THEN NotRefreshed ELSE life.data,
                             !.raw = NoThrown, !.thrown = NoThrown]
       IN life' = IF ~life.data.id THEN Rejects(l, "id", IdError(rev))
                  ELSE IF RefreshesFirst(rev, op)
                  THEN [l EXCEPT !.pc = "first"]
                  ELSE Sends(l)
    /\ UNCHANGED <<rev, logVars, waitVars, httpVars, run, until, pair>>

\* The refresh() that start() and stop() begin with resolves
FirstResponse(status, setup, hasId) ==
    /\ life.pc = "first"
    /\ LET d == SandboxData(status, setup, hasId)
           l == [life EXCEPT !.data = d, !.before = d]
       IN life' = IF AlreadyThere(life.op, d)
                  THEN [l EXCEPT !.pc = "resolved"]
                  ELSE Sends(l)
    /\ UNCHANGED <<rev, logVars, waitVars, httpVars, run, until, pair>>

\* The client call of the operation resolves: refresh and the three
\* lifecycle requests store the response, destroy stores nothing
OpResponse(status, setup, hasId) ==
    /\ life.pc = "request"
    /\ LET l == IF life.op = "destroy" THEN life
                ELSE [life EXCEPT
                         !.data = SandboxData(status, setup, hasId)]
       IN life' = Enters(l, Phases(rev, life.op))
    /\ UNCHANGED <<rev, logVars, waitVars, httpVars, run, until, pair>>

\* The client call of the operation, or the refresh() it begins with,
\* rejects
OpFails(e) ==
    /\ life.pc \in {"first", "request"}
    /\ e \in RequestErrors(rev)
    /\ life' = Rejects(life, IF life.pc = "first" THEN "first" ELSE "request",
                       e)
    /\ UNCHANGED <<rev, logVars, waitVars, httpVars, run, until, pair>>

\* The refresh() of a waitUntil... loop resolves: the loop returns, throws,
\* or, late being whether the deadline has passed, sleeps and refreshes
\* again
CheckResponse(status, setup, hasId, late) ==
    /\ life.pc \in WaitOps
    /\ LET l == [life EXCEPT !.data = SandboxData(status, setup, hasId)]
       IN IF IsAwaited(life.pc, status, setup)
          THEN life' = Enters(l, life.todo)
          ELSE IF IsFailure(life.pc, status, setup)
          THEN life' = Rejects(l, "loop", LoopError(rev))
          ELSE IF HasDeadline(life.pc) /\ late
          THEN life' = Rejects(l, "loop", LoopError(rev))
          ELSE /\ life.checks < MaxChecks
               /\ life' = IF ~hasId THEN Rejects(l, "pollId", IdError(rev))
                          ELSE [l EXCEPT !.checks = @ + 1]
    /\ UNCHANGED <<rev, logVars, waitVars, httpVars, run, until, pair>>

\* The refresh() of a waitUntil... loop rejects
CheckFails(e) ==
    /\ life.pc \in WaitOps
    /\ e \in RequestErrors(rev)
    /\ life' = Rejects(life, "poll", e)
    /\ UNCHANGED <<rev, logVars, waitVars, httpVars, run, until, pair>>

InitLife ==
    /\ rev \in Revisions
    /\ handles = <<>>
    /\ call = NoCall
    /\ settled = NoneSettled
    /\ waits = 0
    /\ NoLogs
    /\ InitHttp
    /\ InitEntity

NextLife ==
    \/ \E op \in LifeOps : CallOp(op)
    \/ \E status \in SandboxStatuses, setup \in SetupStatuses,
          hasId \in BOOLEAN : FirstResponse(status, setup, hasId)
    \/ \E status \in SandboxStatuses, setup \in SetupStatuses,
          hasId \in BOOLEAN : OpResponse(status, setup, hasId)
    \/ \E e \in RequestErrors(rev) : OpFails(e)
    \/ \E status \in SandboxStatuses, setup \in SetupStatuses,
          hasId \in BOOLEAN, late \in BOOLEAN :
           CheckResponse(status, setup, hasId, late)
    \/ \E e \in RequestErrors(rev) : CheckFails(e)

SpecLife == InitLife /\ [][NextLife]_vars

-----------------------------------------------------------------------------
(* HttpClient.#request and #executeWithRetry; kill and deleteSandboxById *)

MaxRequests == 2

\* retryOptions.retries
Retries == 3

\* What an attempt may end with: a response status, or 0 when fetch itself
\* failed or timed out (makeRequest throws HttpError(message, 0))
Statuses == {0, 200, 400, 404, 429, 500, 503}

\* onFailedAttempt that never throws: p-retry decides alone
OnFailedAttemptNeverThrows(status) == FALSE

\* onFailedAttempt that gives up on a failure without a status as well
OnFailedAttemptThrowsOnZero(status) ==
    status = 0 \/ (status >= 400 /\ status < 500 /\ status # 429)

\* onFailedAttempt: if (status && status >= 400 && status < 500 &&
\* status !== 429) throw error
OnFailedAttemptThrows(status) ==
    status # 0 /\ status >= 400 /\ status < 500 /\ status # 429

\* skipRetry is not looked at
SkipRetryIgnored(req) == FALSE

\* if (skipRetry) return requestFunction()
SkipsRetry(req) == req.skipRetry

\* Retries counted as attempts: the last retry is never made
RejectsOneEarly(req, status, made) ==
    \/ req.skipRetry
    \/ OnFailedAttemptThrows(status)
    \/ made >= Retries

\* No retry at all: the first failure is raised
RejectsAlways(req, status, made) == TRUE

\* After a failed attempt: whether the promise of #request rejects now
\* (no retry asked for, onFailedAttempt threw, or p-retry has no retry left)
RejectsNow(req, status, made) ==
    \/ SkipsRetry(req)
    \/ OnFailedAttemptThrows(status)
    \/ made > Retries

\* No catch: the HttpError of a 404 leaves deleteSandboxById too
OperationCatchNothing(r, req, status) == Rejected("HttpError", status)

\* The catch of deleteSandboxById (buddy-api-client.ts) and of deleteSandbox
\* (part_006); every other operation lets the HttpError through
OperationCatch(r, req, status) ==
    IF req.op = "deleteSandboxById"
    THEN IF r = "r1"
         THEN IF status # 404 THEN Rejected("HttpError", status)
              ELSE Resolved(status)
         ELSE IF status = 404 THEN Resolved(status)
              ELSE Rejected("HttpError", status)
    ELSE Rejected("HttpError", status)

\* Whether the operation hands the response to the response schema
ParsesResponse(r, req) ==
    req.op = "kill" \/ (req.op = "deleteSandboxById" /\ r # "r1")

\* schema.safeParse(response.data): result.success, or "none" when the
\* operation returns the response as it is
SafeParse(r, req, valid) ==
    IF ~ParsesResponse(r, req) THEN "none"
    ELSE IF valid THEN "success" ELSE "failure"

\* The payload is returned whether or not it fits the schema
OperationThenUnvalidated(r, req, status, valid) == Resolved(status)

\* What the operation does with the response of a successful request:
\* terminateCommand and deleteSandboxById (buddy-api-client.ts) parse it
\* against the response schema and throw HttpError(..., response.status)
\* when it does not fit; HttpClient.get and deleteSandbox (part_006) do not
OperationThen(r, req, status, valid) ==
    IF SafeParse(r, req, valid) # "failure"
    THEN Resolved(status)
    ELSE OperationCatch(r, req, status)

\* A client operation starts: #request builds makeRequest and makes the
\* first attempt
StartRequest(op, skip, on) ==
    /\ http \in {"idle", "resolved", "rejected"}
    /\ requests < MaxRequests
    /\ request' = [op |-> op, skipRetry |-> skip, on |-> on]
    /\ attempts' = 1
    /\ answers' = <<>>
    /\ http' = "fetch"
    /\ outcome' = Pending
    /\ requests' = requests + 1
    /\ validated' = "none"
    /\ UNCHANGED <<rev, entityVars, logVars, waitVars>>

\* HttpClient.get(url, {skipRetry})
CallGet(skip) == StartRequest("get", skip, 0)

\* kill() that goes on to poll for the terminal status
CallKillThenPolls(i) ==
    /\ i \in 1..Len(handles)
    /\ http \in {"idle", "resolved", "rejected"}
    /\ requests < MaxRequests
    /\ request' = [op |-> "kill", skipRetry |-> FALSE, on |-> i]
    /\ attempts' = 1
    /\ answers' = <<>>
    /\ http' = "fetch"
    /\ outcome' = Pending
    /\ requests' = requests + 1
    /\ validated' = "none"
    /\ call' = [NoCall EXCEPT !.pc = "inflight", !.on = i, !.polls = 1]
    /\ UNCHANGED <<rev, entityVars, logVars, handles, settled, waits>>

\* Command.kill(): client.terminateCommand, a POST without skipRetry
CallKill(i) ==
    /\ i \in 1..Len(handles)
    /\ StartRequest("kill", FALSE, i)

\* deleteSandboxById: a DELETE with skipRetry: true
CallDeleteSandboxById == StartRequest("deleteSandboxById", TRUE, 0)

\* An attempt ends with `status`; `valid` says whether the data of a
\* successful response fits the response schema of the operation
AttemptSettles(status, valid) ==
    /\ http = "fetch"
    /\ answers' = Append(answers, status)
    /\ IF IsOk(status)
       THEN /\ http' = "resolved"
            /\ outcome' = OperationThen(rev, request, status, valid)
            /\ validated' = SafeParse(rev, request, valid)
       ELSE IF RejectsNow(request, status, attempts)
       THEN /\ http' = "rejected"
            /\ outcome' = OperationCatch(rev, request, status)
            /\ UNCHANGED validated
       ELSE /\ http' = "backoff"
            /\ UNCHANGED <<outcome, validated>>
    /\ UNCHANGED <<request, attempts, requests, rev, entityVars, logVars, waitVars>>

\* p-retry's delay has passed: the next attempt
RetryTimer ==
    /\ http = "backoff"
    /\ http' = "fetch"
    /\ attempts' = attempts + 1
    /\ UNCHANGED <<request, answers, outcome, requests, validated, rev, entityVars,
                   logVars, waitVars>>

InitTransport ==
    /\ rev \in {"r1", "r3"}
    /\ handles = <<NewCommand(Response({"id", "status"}, "INPROGRESS", 0))>>
    /\ call = NoCall
    /\ settled = NoneSettled
    /\ waits = 0
    /\ payload = <<>>
    /\ contentType = "application/jsonl"
    /\ responseStatus = 200
    /\ fetches = 0
    /\ earlier = <<>>
    /\ stream = "BOTH"
    /\ pos = 0
    /\ pending = <<>>
    /\ buffer = <<>>
    /\ lines = <<>>
    /\ gen = "start"
    /\ yielded = <<>>
    /\ error = NoError
    /\ locked = FALSE
    /\ responseBody = "none"
    /\ cuts = {}
    /\ data = <<>>
    /\ InitHttp
    /\ InitEntity

NextTransport ==
    \/ \E skip \in BOOLEAN : CallGet(skip)
    \/ \E i \in 1..Len(handles) : CallKill(i)
    \/ CallDeleteSandboxById
    \/ \E status \in Statuses, valid \in BOOLEAN :
           AttemptSettles(status, valid)
    \/ RetryTimer

SpecTransport == InitTransport /\ [][NextTransport]_vars

-----------------------------------------------------------------------------
(* Properties of the log sequence *)

IsPrefix(a, b) == Len(a) <= Len(b) /\ a = SubSeq(b, 1, Len(a))

\* The records of the non-blank lines ls, in order, up to the first line
\* that is no record
RECURSIVE RecordsOf(_, _)
RecordsOf(r, ls) ==
    LET rest == SkipBlank(ls)
    IN IF rest = <<>> THEN <<>>
       ELSE LET e == ParseEntry(r, Head(rest))
            IN IF e.ok THEN e.log \o RecordsOf(r, Tail(rest)) ELSE <<>>

\* The sequence yielded when the whole body arrives as a single chunk: one
\* read, its complete lines, then the rest of the buffer at the end
WholeBody(r, body) ==
    LET d == TextDecoder_decode(<<>>, body)
        parts == Split(d.out)
    IN RecordsOf(r, parts)

WellFormedBodies == Bodies({LineOutA, LineErrE9, LineBlank})

\* C1: for a well-formed body, however its bytes are cut into chunks, the
\* records yielded are at every moment a prefix of, and at the end of the
\* stream equal to, the records yielded when the body arrives as one chunk;
\* no cut makes a line fail.
C1_ChunkingInvariant ==
    (IsJsonl(contentType) /\ payload \in WellFormedBodies) =>
        LET whole == WholeBody(rev, payload)
        IN /\ IsPrefix(yielded, whole)
           /\ (gen = "done" => yielded = whole)
           /\ (gen = "failed" => error.kind = "TypeError")

C1_Witness ==
    /\ IsJsonl(contentType)
    /\ payload \in WellFormedBodies
    /\ gen = "done"
    /\ cuts = {"char", "object"}
    /\ Len(yielded) = MaxLines

\* The lines of the body as text
TextLines(body) == Split(Response_text(body))

IsBadLine(line) == Trim(line) # <<>> /\ ~JSON_parse(line).ok

\* The lines ls up to and without the first one that is not valid JSON, and
\* that line; none when every line is blank or valid JSON
RECURSIVE UpToBad(_)
UpToBad(ls) ==
    IF ls = <<>> THEN [before |-> <<>>, bad |-> <<>>]
    ELSE IF IsBadLine(Head(ls)) THEN [before |-> <<>>, bad |-> <<Head(ls)>>]
    ELSE LET t == UpToBad(Tail(ls))
         IN [before |-> <<Head(ls)>> \o t.before, bad |-> t.bad]

\* C4: when a line of the stream is not valid JSON, the records yielded are
\* those of the lines before it, in order; the sequence then fails with an
\* error carrying that line, never ends normally and yields nothing from a
\* later line.
C4_MalformedLineAborts ==
    (IsJsonl(contentType) \/ rev = "r1") =>
        LET cut == UpToBad(TextLines(payload))
            before == RecordsOf(rev, cut.before)
        IN cut.bad # <<>> =>
            /\ IsPrefix(yielded, before)
            /\ gen # "done"
            /\ (gen = "failed" /\ error.kind # "TypeError" =>
                    /\ yielded = before
                    /\ error = Err("Error", cut.bad[1]))

C4_Witness ==
    /\ payload = Join(<<LineOutA, LineNotJson, LineOutA>>)
    /\ IsJsonl(contentType)
    /\ rev = "r3"
    /\ gen = "failed"
    /\ error = Err("Error", <<"n">>)
    /\ yielded = <<[type |-> "STDOUT", data |-> <<"a">>]>>

\* C5: a logs response whose Content-Type is not the JSON Lines type yields
\* no record and fails; the body is never parsed as plain text.
C5_ContentTypeGate ==
    ~IsJsonl(contentType) =>
        /\ yielded = <<>>
        /\ gen \in {"start", "failed"}

\* Why the sequence failed: the request or the connection, the content-type
\* gate, or a line
Causes == {"connectivity", "contentType", "malformed"}

Cause ==
    IF ~IsOk(responseStatus) \/ responseBody = "errored" THEN "connectivity"
    ELSE IF OpenError(rev, responseStatus, contentType) # NoError
    THEN "contentType"
    ELSE "malformed"

\* The kinds of error a cause can surface as
KindsOf(r, cause) ==
    IF cause = "connectivity"
    THEN {OpenError(r, st, "application/jsonl").kind :
              st \in LogStatuses \ {200}} \cup {"TypeError"}
    ELSE IF cause = "contentType"
    THEN {OpenError(r, 200, "text/plain").kind} \ {"none"}
    ELSE {ParseEntry(r, l).error.kind : l \in MalformedLines}

\* C23: the kind of the error the log sequence failed with is a kind that
\* no other of the three causes (connectivity or non-2xx answer, content
\* type, malformed line) surfaces as.
C23_ErrorKindsTellCausesApart ==
    gen = "failed" =>
        \A c \in Causes \ {Cause} : error.kind \notin KindsOf(rev, c)

\* JSON whose type is neither STDOUT nor STDERR or which has no data
IsInvalidRecord(line) ==
    LET parsed == JSON_parse(line)
    IN /\ parsed.ok
       /\ \/ parsed.value.type \notin {"STDOUT", "STDERR"}
          \/ "data" \notin parsed.value.has

IsMalformed(line) == IsBadLine(line) \/ IsInvalidRecord(line)

\* The lines ls up to and without the first one that is no record, and that
\* line; none when every line is blank or a record
RECURSIVE UpToMalformed(_)
UpToMalformed(ls) ==
    IF ls = <<>> THEN [before |-> <<>>, bad |-> <<>>]
    ELSE IF IsMalformed(Head(ls))
    THEN [before |-> <<>>, bad |-> <<Head(ls)>>]
    ELSE LET t == UpToMalformed(Tail(ls))
         IN [before |-> <<Head(ls)>> \o t.before, bad |-> t.bad]

\* C24: the error the sequence fails with at a malformed line carries the
\* text of that line, whether the line is not JSON or is JSON that does not
\* fit the schema of a log record.
C24_MalformedErrorCarriesLine ==
    (gen = "failed" /\ Cause = "malformed") =>
        LET cut == UpToMalformed(TextLines(payload))
        IN cut.bad # <<>> /\ error.line = cut.bad[1]

C8_LastLineWithoutNewline ==
    (gen = "done" /\ IsJsonl(contentType)) =>
        LET last == LinesPop(TextLines(payload))
        IN Trim(last) # <<>> =>
               /\ yielded # <<>>
               /\ ParseEntry(rev, last).log = <<yielded[Len(yielded)]>>

C8_Witness ==
    /\ payload = Join(<<LineErrE9, LineOutA>>)
    /\ IsJsonl(contentType)
    /\ rev = "r3"
    /\ gen = "done"
    /\ yielded = <<[type |-> "STDERR", data |-> <<"U+E9">>],
                   [type |-> "STDOUT", data |-> <<"a">>]>>

\* C37: between chunks the buffer holds no newline: what is in it is the
\* one line that is not complete yet.  The lines split off are single lines,
\* and all of them have been gone through when the next chunk is read.
C37_BufferHoldsOnePartialLine ==
    /\ \A i \in 1..Len(buffer) : buffer[i] # NL
    /\ \A k \in 1..Len(lines) : \A i \in 1..Len(lines[k]) : lines[k][i] # NL
    /\ (gen = "read" => lines = <<>>)

C37_Witness ==
    /\ gen = "read"
    /\ buffer # <<>>
    /\ yielded # <<>>
    /\ pos < Len(payload)
    /\ "object" \in cuts

\* The number of lines of the body that are not empty and not whitespace
NonBlank(body) ==
    Cardinality({i \in 1..Len(TextLines(body)) :
                    \E j \in 1..Len(TextLines(body)[i]) :
                        ~IsWhitespace(TextLines(body)[i][j])})

\* C38: lines that are empty or hold only whitespace, the segment after the
\* last newline included, yield no record and raise no error: on a body
\* whose other lines are valid records the sequence fails only when the
\* connection drops, never yields more records than there are non-blank
\* lines, and has yielded exactly that many when it ends.
C38_BlankLinesSkipped ==
    (OpenError(rev, responseStatus, contentType) = NoError) =>
        /\ Len(yielded) <= NonBlank(payload)
        /\ (gen = "done" => Len(yielded) = NonBlank(payload))
        /\ (gen = "failed" => error.kind = "TypeError")

C38_Witness ==
    /\ payload = Join(<<LineSpace, LineOutA, LineSpace>>)
    /\ IsJsonl(contentType)
    /\ rev = "r3"
    /\ gen = "done"
    /\ Len(yielded) = 1
    /\ cuts # {}

\* C39: the logs request is sent once and never again: on a 5xx or 429
\* answer the sequence has failed after that one request with the error of
\* the status, and has yielded nothing.
C39_LogsRequestNotRetried ==
    /\ fetches = (IF gen = "start" THEN 0 ELSE 1)
    /\ (responseStatus \in {429, 500} /\ gen # "start" =>
            /\ gen = "failed"
            /\ error.kind \in {"HttpError", "Error"}
            /\ yielded = <<>>)

C39_Witness ==
    /\ responseStatus = 429
    /\ rev = "r3"
    /\ payload # <<>>
    /\ gen = "failed"
    /\ error.kind = "HttpError"
    /\ fetches = 1

-----------------------------------------------------------------------------
(* Properties of output(stream) *)

\* The objects on the wire, one per non-blank line, in wire order
RECURSIVE WireRecords(_)
WireRecords(ls) ==
    IF ls = <<>> THEN <<>>
    ELSE IF Trim(Head(ls)) = <<>> THEN WireRecords(Tail(ls))
    ELSE <<JSON_parse(Head(ls)).value>> \o WireRecords(Tail(ls))

\* The payloads of the records of the given types, in order, each followed
\* by a line terminator
RECURSIVE Terminated(_, _)
Terminated(recs, types) ==
    IF recs = <<>> THEN <<>>
    ELSE (IF Head(recs).type \in types
          THEN Head(recs).data \o <<NL>> ELSE <<>>)
         \o Terminated(Tail(recs), types)

IsNotNL(c) == c # NL
StripNL(t) == SelectSeq(t, IsNotNL)

Contains(t, p) ==
    \E i \in 0..(Len(t) - Len(p)) : SubSeq(t, i + 1, i + Len(p)) = p

SelectedType(sel) ==
    IF sel \in {"stdout", "STDOUT"} THEN "STDOUT" ELSE "STDERR"

\* C6: output("BOTH") is the concatenation, in wire order, of every
\* record's payload followed by a line terminator; over an empty stream it
\* is the empty string.
C6_OutputBoth ==
    (gen = "done" /\ IsBoth(stream)) =>
        data = Terminated(WireRecords(TextLines(payload)),
                          {"STDOUT", "STDERR"})

\* C7: output("STDOUT") is made of the payloads of the STDOUT records, in
\* wire order, and of nothing else: it contains the payload of every STDOUT
\* record and of no STDERR record; likewise output("STDERR").
C7_SelectorFiltering ==
    (gen = "done" /\ ~IsBoth(stream)) =>
        LET recs == WireRecords(TextLines(payload))
        IN /\ StripNL(data) =
                  StripNL(Terminated(recs, {SelectedType(stream)}))
           /\ \A i \in 1..Len(recs) :
                  IF recs[i].type = SelectedType(stream)
                  THEN Contains(data, recs[i].data)
                  ELSE recs[i].data # <<>> => ~Contains(data, recs[i].data)

C7_Witness ==
    /\ gen = "done"
    /\ rev = "r3"
    /\ stream = "STDOUT"
    /\ payload = Join(<<LineOutA, LineErrE9, LineOutA>>) \o <<NL>>
    /\ data = <<"a", NL, "a", NL>>

-----------------------------------------------------------------------------
(* Properties of wait() *)

\* C2: a wait() that receives k non-terminal responses and then a terminal
\* one sends exactly k + 1 polls and resolves with a handle that carries
\* that last response: its status, and its exit code when it has one.
C2_PollsUntilTerminal ==
    /\ (call.pc = "inflight" => call.polls = call.nonTerminal + 1)
    /\ (call.pc = "sleep" => call.polls = call.nonTerminal)
    /\ (settled.result # 0 /\ settled.polls > 0) =>
           LET h == handles[settled.result]
           IN /\ IsTerminal(settled.last)
              /\ settled.polls = settled.nonTerminal + 1
              /\ h.commandResponse = settled.last
              /\ StatusOf(h) = Defined(settled.last.status)
              /\ ("exit_code" \in settled.last.has =>
                      ExitCodeOf(h) = Defined(settled.last.exit_code))

C2_Witness ==
    /\ rev = "r3"
    /\ settled.result # 0
    /\ settled.polls = MaxPolls
    /\ settled.nonTerminal = MaxPolls - 1
    /\ ~settled.odd
    /\ settled.last = Response({"id", "status", "exit_code"}, "SUCCESSFUL", 0)
    /\ ExitCodeOf(handles[settled.result]) = Defined(0)

\* C3: every handle wait() resolves with has status SUCCESSFUL or FAILED,
\* whatever the polls answered before, unknown and missing statuses
\* included.
C3_WaitReturnsTerminal ==
    /\ \A i \in 1..Len(handles) :
           handles[i].from = "wait" =>
               /\ StatusOf(handles[i]).defined
               /\ StatusOf(handles[i]).value \in TerminalStatuses
    /\ settled.result # 0 =>
           /\ handles[settled.result].from = "wait"
           /\ (settled.polls > 0 => IsTerminal(settled.last))

C3_Witness ==
    /\ settled.result # 0
    /\ settled.odd
    /\ settled.nonTerminal = MaxPolls - 1
    /\ StatusOf(handles[settled.result]) = Defined("FAILED")

\* C9: wait() on a handle that an earlier wait() resolved with sends no
\* poll and resolves with the same terminal status and exit code.
C9_DoubleWaitIdempotent ==
    /\ (call.pc # "idle" => handles[call.on].from # "wait")
    /\ (settled.on # 0 /\ handles[settled.on].from = "wait") =>
           /\ settled.polls = 0
           /\ settled.result # 0
           /\ StatusOf(handles[settled.result]) =
                  StatusOf(handles[settled.on])
           /\ ExitCodeOf(handles[settled.result]) =
                  ExitCodeOf(handles[settled.on])

\* C10: a handle wait() built from a terminal response without exit_code
\* reports exit code 0; a Command built from a non-terminal response
\* without exit_code reports an undefined exit code, never 0.
C10_ExitCodeDefault ==
    \A i \in 1..Len(handles) :
        "exit_code" \notin handles[i].commandResponse.has =>
            IF handles[i].from = "wait"
            THEN ExitCodeOf(handles[i]) = Defined(0)
            ELSE ~IsTerminal(handles[i].commandResponse) =>
                     ExitCodeOf(handles[i]) = Undefined

\* C11: a poll answered FAILED, or with a non-zero exit code, makes wait()
\* resolve with a handle that carries that status and exactly that exit
\* code; wait() rejects only when a poll itself was rejected, never on a
\* response.
C11_FailureIsNormalCompletion ==
    /\ settled.failed => (settled.result = 0 /\ settled.last = NoResponse)
    /\ (settled.on # 0 /\ settled.polls > 0 /\ settled.last # NoResponse) =>
           /\ ~settled.failed
           /\ settled.result # 0
           /\ StatusOf(handles[settled.result]) =
                  Defined(settled.last.status)
           /\ ("exit_code" \in settled.last.has =>
                   ExitCodeOf(handles[settled.result]) =
                       Defined(settled.last.exit_code))

C11_Witness ==
    /\ settled.result # 0
    /\ ~settled.failed
    /\ settled.nonTerminal > 0
    /\ settled.last = Response({"id", "status", "exit_code"}, "FAILED", 42)
    /\ StatusOf(handles[settled.result]) = Defined("FAILED")
    /\ ExitCodeOf(handles[settled.result]) = Defined(42)

\* C21: a wait() whose poll is rejected rejects with the error of that
\* poll, which was its last: no call in progress has a failed poll behind
\* it, and a wait() that resolved met no error.
C21_PollFailureEndsWait ==
    /\ call.error = "none"
    /\ settled.failed =>
           /\ settled.error \in PollErrors(rev)
           /\ settled.result = 0
           /\ settled.polls = settled.nonTerminal + 1
    /\ ~settled.failed => settled.error = "none"

C21_Witness ==
    /\ settled.failed
    /\ settled.error = "HttpError"
    /\ settled.nonTerminal = MaxPolls - 1
    /\ settled.polls = MaxPolls
    /\ call.pc = "idle"

\* C14: no step changes a handle that exists: a wait() that polled resolves
\* with a handle created by that step, other than the one it was called
\* on, which keeps the response it was created with.
C14_WaitLeavesOriginal ==
    [][/\ Len(handles') >= Len(handles)
       /\ \A i \in 1..Len(handles) : handles'[i] = handles[i]
       /\ (settled' # settled /\ settled'.result # 0 /\ settled'.polls > 0) =>
              /\ settled'.result = Len(handles) + 1
              /\ settled'.result # settled'.on]_vars

C14_Witness ==
    /\ settled.on = 1
    /\ settled.result = 2
    /\ StatusOf(handles[1]) = Defined("INPROGRESS")
    /\ ExitCodeOf(handles[1]) = Undefined
    /\ StatusOf(handles[2]) = Defined("SUCCESSFUL")
    /\ ExitCodeOf(handles[2]) = Defined(0)

-----------------------------------------------------------------------------
(* Properties of the reader and the response body *)

\* C12: whenever the log sequence has ended (end of stream, the consumer
\* leaving early, a failed read, a malformed line) the reader is released;
\* it is held only while the generator is inside its try block.
C12_ReaderReleased ==
    /\ gen \in {"done", "failed", "returned"} => ~locked
    /\ locked => gen \in {"read", "yield", "yieldLast"}
    /\ (gen \in {"read", "yield", "yieldLast"}) => locked

C12_Witness ==
    /\ IsJsonl(contentType)
    /\ gen = "failed"
    /\ error.kind = "TypeError"
    /\ yielded # <<>>
    /\ pos < Len(payload)
    /\ ~locked

\* C13: once the consumer has stopped iterating, the response body is not
\* left open: it is cancelled unless the server had already closed it.
C13_EarlyStopCancelsBody ==
    gen = "returned" => responseBody # "open"

-----------------------------------------------------------------------------
(* Properties of the transport, kill and deleteSandboxById *)

Last(q) == q[Len(q)]

IsTransient(status) == status = 429 \/ status >= 500

IsClientError(status) == status >= 400 /\ status < 500 /\ status # 429

C16_ClientErrorsNotRetried ==
    ~request.skipRetry =>
        \A k \in 1..Len(answers) :
            /\ IsClientError(answers[k]) =>
                   /\ k = Len(answers)
                   /\ attempts = k
                   /\ http = "rejected"
                   /\ outcome = Rejected("HttpError", answers[k])
            /\ (IsTransient(answers[k]) /\ k <= Retries) =>
                   /\ (k = Len(answers) =>
                           \/ http = "backoff" /\ attempts = k
                           \/ http = "fetch" /\ attempts = k + 1)
                   /\ (k < Len(answers) => attempts > k)

C16_Witness ==
    /\ request.op = "get"
    /\ ~request.skipRetry
    /\ answers = <<429, 500, 400>>
    /\ attempts = 3
    /\ outcome = Rejected("HttpError", 400)

\* C17: no request is attempted more than Retries + 1 = 4 times, and a
\* request without skipRetry whose every attempt was answered 5xx is
\* rejected with the HttpError only after the fourth.
C17_FourAttemptsAtMost ==
    /\ attempts <= Retries + 1
    /\ Len(answers) <= Retries + 1
    /\ (/\ ~request.skipRetry
        /\ answers # <<>>
        /\ \A k \in 1..Len(answers) : answers[k] \in {500, 503}) =>
           /\ (http = "rejected") = (Len(answers) = Retries + 1)
           /\ http = "rejected" =>
                  /\ attempts = Retries + 1
                  /\ outcome = Rejected("HttpError", Last(answers))

C17_Witness ==
    /\ ~request.skipRetry
    /\ answers = <<500, 500, 500, 500>>
    /\ attempts = 4
    /\ http = "rejected"
    /\ outcome = Rejected("HttpError", 500)

\* C18: when the first k <= 3 attempts were answered 503 or 429 and the
\* next one succeeds, the caller gets that response after exactly k + 1
\* attempts; a success is always the last attempt of its request.
C18_RetryThenSuccess ==
    /\ \A k \in 1..Len(answers) :
           IsOk(answers[k]) =>
               /\ k = Len(answers)
               /\ attempts = k
               /\ http = "resolved"
               /\ (request.op = "get" => outcome = Resolved(answers[k]))
    /\ (http = "resolved") = (answers # <<>> /\ IsOk(Last(answers)))
    /\ (/\ request.op # "none"
        /\ ~request.skipRetry
        /\ Len(answers) <= Retries
        /\ \A k \in 1..Len(answers) : answers[k] \in {503, 429}) =>
           /\ http \in {"fetch", "backoff"}
           /\ outcome = Pending
           /\ attempts = Len(answers) + (IF http = "fetch" THEN 1 ELSE 0)

C18_Witness ==
    /\ ~request.skipRetry
    /\ request.op = "get"
    /\ answers = <<503, 429, 503, 200>>
    /\ attempts = 4
    /\ outcome = Resolved(200)

\* C19: deleteSandboxById resolves when its request is answered 404 and
\* rejects with the HttpError of every other failure status.
C19_DeleteIgnores404 ==
    (request.op = "deleteSandboxById" /\ answers # <<>>) =>
        /\ Len(answers) = 1
        /\ Last(answers) = 404 => outcome = Resolved(404)
        /\ (~IsOk(Last(answers)) /\ Last(answers) # 404) =>
               outcome = Rejected("HttpError", Last(answers))

C19_Witness ==
    /\ rev = "r3"
    /\ request.op = "deleteSandboxById"
    /\ answers = <<404>>
    /\ http = "rejected"
    /\ outcome = Resolved(404)

\* C20: a request made with skipRetry is attempted once: whatever status
\* its attempt fails with, 429 and 5xx included, the transport rejects
\* with that HttpError at once.
C20_SkipRetryOneAttempt ==
    request.skipRetry =>
        /\ attempts = 1
        /\ http # "backoff"
        /\ Len(answers) <= 1
        /\ (answers # <<>> /\ ~IsOk(Last(answers))) =>
               /\ http = "rejected"
               /\ (request.op = "get" =>
                       outcome = Rejected("HttpError", Last(answers)))

C20_Witness ==
    /\ request.op = "get"
    /\ request.skipRetry
    /\ answers = <<503>>
    /\ attempts = 1
    /\ outcome = Rejected("HttpError", 503)

\* C22: when the payload of a 2xx response does not fit the response schema
\* the operation rejects instead of returning the payload, with the error
\* raised by the validation (an HttpError carrying the 2xx status of that
\* response), and the transport has resolved: the attempt that brought the
\* response is the last one of the request.
C22_InvalidResponseFailsOnce ==
    /\ validated = "failure" =>
           /\ ParsesResponse(rev, request)
           /\ http = "resolved"
           /\ IsOk(Last(answers))
           /\ outcome = Rejected("HttpError", Last(answers))
           /\ attempts = Len(answers)
    /\ validated = "success" => outcome = Resolved(Last(answers))

C22_Witness ==
    /\ request.op = "kill"
    /\ validated = "failure"
    /\ answers = <<503, 200>>
    /\ attempts = 2
    /\ outcome = Rejected("HttpError", 200)

\* C40: an attempt that failed below HTTP (no connection, timeout: the
\* HttpError of status 0) is followed by another attempt while retries are
\* left, and the request is rejected with that HttpError only when the
\* fourth attempt has failed so too.
C40_NetworkFailuresRetried ==
    (request.op # "none" /\ ~request.skipRetry) =>
        \A k \in 1..Len(answers) :
            answers[k] = 0 =>
                IF k <= Retries
                THEN /\ (k = Len(answers) =>
                            /\ outcome = Pending
                            /\ \/ http = "backoff" /\ attempts = k
                               \/ http = "fetch" /\ attempts = k + 1)
                     /\ (k < Len(answers) => attempts > k)
                ELSE /\ k = Len(answers)
                     /\ attempts = Retries + 1
                     /\ http = "rejected"
                     /\ outcome = Rejected("HttpError", 0)

C40_Witness ==
    /\ request.op = "get"
    /\ ~request.skipRetry
    /\ answers = <<0, 0, 0, 0>>
    /\ attempts = Retries + 1
    /\ http = "rejected"
    /\ outcome = Rejected("HttpError", 0)

-----------------------------------------------------------------------------
(* Termination of wait() *)

\* C27: when no poll fails and the server eventually reports a terminal
\* status, every wait() that has been called eventually returns.
C27_WaitEventuallyReturns ==
    (call.pc # "idle") ~> (call.pc = "idle" /\ settled.result # 0)

C27_Witness ==
    /\ call.pc = "idle"
    /\ ~settled.failed
    /\ settled.result # 0
    /\ settled.polls = MaxPolls
    /\ settled.nonTerminal = MaxPolls - 1
    /\ settled.last.status = "FAILED"

\* C28: a wait() ends only at a step that brings a terminal response or
\* the error of a failed poll; a non-terminal answer, however many came
\* before it, is followed by the sleep and the sleep by the next poll.
C28_NoDeadline ==
    [][/\ (call.pc = "inflight" /\ call'.pc = "idle") =>
              \/ settled'.failed /\ settled'.error \in PollErrors(rev)
              \/ ~settled'.failed /\ IsTerminal(settled'.last)
       /\ (call.pc = "inflight" /\ call'.pc = "sleep") =>
              /\ call'.nonTerminal = call.nonTerminal + 1
              /\ settled' = settled
       /\ (call.pc = "sleep" /\ call' # call) =>
              /\ call'.pc = "inflight"
              /\ call'.polls = call.polls + 1
              /\ settled' = settled]_vars

C28_Witness ==
    /\ call.pc = "sleep"
    /\ call.polls = MaxPolls
    /\ call.nonTerminal = MaxPolls
    /\ settled = NoneSettled

\* The polls of the wait() in progress that have been sent and not answered
InFlight == call.polls - call.nonTerminal

\* C31: a wait() in progress has at most one poll in flight, and none while
\* it sleeps; a poll is sent only by the step that ends the sleep which
\* followed the answer to the poll before, or by the call of wait() itself.
C31_OnePollInFlight ==
    /\ [](call.pc # "idle" =>
              /\ InFlight \in {0, 1}
              /\ (call.pc = "sleep" <=> InFlight = 0))
    /\ [][call'.polls > call.polls =>
              /\ call'.polls = call.polls + 1
              /\ call'.pc = "inflight"
              /\ call.pc \in {"idle", "sleep"}
              /\ (call.pc = "sleep" => call'.nonTerminal = call.polls)]_vars

C31_Witness ==
    /\ call.pc = "inflight"
    /\ call.polls = MaxPolls
    /\ InFlight = 1
    /\ settled = NoneSettled

-----------------------------------------------------------------------------
(* Properties of logs() called more than once *)

\* The number of logs() calls so far whose generator has been iterated
Iterated ==
    Cardinality({i \in 1..Len(earlier) : earlier[i].gen # "start"})
    + (IF gen # "start" THEN 1 ELSE 0)

\* C32: every logs() call that is iterated makes one request of its own
\* and yields its records from the start of that response, whatever the
\* calls before it yielded; a sequence that has ended, thrown or been left
\* yields nothing more and never leaves that state: the only step after it
\* is a new call, which starts empty and leaves the finished one as it was.
C32_EachLogsCallOwnSequence ==
    /\ [](/\ fetches = Iterated
          /\ IsPrefix(yielded, WholeBody(rev, payload))
          /\ (gen = "done" => yielded = WholeBody(rev, payload))
          /\ \A i \in 1..Len(earlier) :
                 /\ IsPrefix(earlier[i].records, WholeBody(rev, payload))
                 /\ (earlier[i].gen = "done" /\ gen = "done"
                        => earlier[i].records = yielded))
    /\ [][/\ IsPrefix(earlier, earlier')
          /\ (gen \in Over =>
                 \/ gen' = gen /\ yielded' = yielded /\ fetches' = fetches
                 \/ /\ earlier' = Append(earlier,
                                          [records |-> yielded, gen |-> gen])
                    /\ gen' = "start"
                    /\ yielded' = <<>>
                    /\ fetches' = fetches)]_vars

C32_Witness ==
    /\ Len(earlier) = 1
    /\ earlier[1].gen = "returned"
    /\ Len(earlier[1].records) = 1
    /\ gen = "done"
    /\ Len(yielded) = 2
    /\ fetches = 2

-----------------------------------------------------------------------------
(* Properties of runCommand *)

\* C26: once the submission response of a detached runCommand has been
\* received, runCommand has returned the Command built from that response,
\* with its status, whether or not output streams are attached: it is not
\* waiting for the log stream or for a poll.
C26_DetachedReturnsAtOnce ==
    (run.detached /\ run.handle # 0) =>
        /\ run.pc = "returned"
        /\ run.result = run.handle
        /\ call = NoCall

\* C36: a runCommand that is not detached returns only when wait() has
\* resolved on a terminal status and the log stream, if one was opened, has
\* ended; when wait() or the log stream has failed it does not return but
\* rejects.
C36_ReturnsAfterWaitAndLogs ==
    (~run.detached /\ run.handle # 0) =>
        /\ (run.pc = "returned" =>
                /\ settled.on = run.handle
                /\ ~settled.failed
                /\ IsTerminal(settled.last)
                /\ run.result = settled.result
                /\ run.logs \in {"none", "ended"})
        /\ (run.logs = "failed" => run.pc = "rejected")
        /\ (settled.on = run.handle /\ settled.failed =>
                run.pc \in {"wait", "rejected"})

-----------------------------------------------------------------------------
(* Properties of waitUntil... *)

\* C29: no sandbox-state-waiting operation goes on to another poll after a
\* poll at which more than the maximum wait had elapsed since it was called:
\* it has raised its error instead.
C29_DeadlineOnEveryWait ==
    until.pc = "sleep" => until.checked - until.startTime <= MaxWait

-----------------------------------------------------------------------------
(* Properties of two handles used at once *)

\* C30: under every interleaving, each handle asks about its own command
\* only; the response wait() returns is the server's terminal record of that
\* command, status and exit code, and the records its log sequence yields
\* are those of that command, in order.
C30_HandlesAreIndependent ==
    \A h \in PairHandles :
        LET o == pair.op[h]
        IN /\ o.asked \in {0, h}
           /\ o.lasked \in {0, h}
           /\ o.pc = "done" =>
                  /\ o.result = Details(h, pair.server[h])
                  /\ o.result.status \in TerminalStatuses
           /\ \A i \in 1..Len(o.records) :
                  o.records[i] = [cmd |-> h, seq |-> i]

C30_Witness ==
    /\ pair.op[1].pc = "done"
    /\ pair.op[1].polls >= 2
    /\ pair.op[1].result = Details(1, "SUCCESSFUL")
    /\ pair.op[2].pc = "response"
    /\ pair.op[2].polls >= 2
    /\ pair.op[2].answer = Details(2, "FAILED")
    /\ Len(pair.op[1].records) = MaxRecords
    /\ Len(pair.op[2].records) = 1
    /\ pair.op[2].lpc = "open"

-----------------------------------------------------------------------------
(* Properties of the errors of Sandbox operations *)

\* The code withErrorHandler gives an error of this kind
CodeOf(kind) ==
    IF kind = "HttpError" THEN "HTTP_ERROR"
    ELSE IF kind \in {"ZodError", "ValidationError"} THEN "VALIDATION_ERROR"
    ELSE "GENERIC_ERROR"

\* C33: an operation of the sandbox that rejects does so with a
\* BuddySDKError built once, however many handlers the error passed: its
\* code is HTTP_ERROR with the status of the HttpError, VALIDATION_ERROR for
\* a schema validation error, GENERIC_ERROR for anything else.
C33_OnlySDKErrorsEscape ==
    life.pc = "rejected" =>
        /\ life.thrown.kind = "BuddySDKError"
        /\ life.thrown.layers = 1
        /\ life.thrown.code = CodeOf(life.raw.kind)
        /\ (life.raw.kind = "HttpError" =>
                life.thrown.statusCode = life.raw.statusCode)

-----------------------------------------------------------------------------
(* Properties of start, stop and restart *)

\* C34: when restart() has returned normally, the data of the sandbox say
\* status RUNNING and setup status SUCCESS, whatever the server answered
\* while restart() was waiting.
C34_RestartEndsRunningAndReady ==
    (life.op = "restart" /\ life.pc = "resolved") =>
        /\ life.data.status = "RUNNING"
        /\ life.data.setup = "SUCCESS"

\* C35: start() on a sandbox whose state, as last refreshed, is RUNNING with
\* setup SUCCESS, and stop() on one whose state is STOPPED, send no request
\* and return without waiting.
C35_NothingToDoSendsNothing ==
    (/\ life.op \in {"start", "stop"}
     /\ life.before.id
     /\ AlreadyThere(life.op, life.before)) =>
        /\ life.sent = 0
        /\ life.checks = 0
        /\ life.pc = "resolved"

====
